---- MODULE Spec2Model ----
(***************************************************************************)
(* Row transformation engine of the CSV/Excel transformer: the shared      *)
(* helpers, the AGNE and Pine State Spirits vendor transformers, the       *)
(* vendor registry and the dispatching transformRow / getOutputColumns.    *)
(*                                                                         *)
(* A JavaScript string is a sequence of one-character strings; the value   *)
(* undefined is the one-element sequence Undefined, which is no string.    *)
(* A number is a record [nan, neg, ip, fp]: sign, integer digits without   *)
(* leading zeros, fraction digits without trailing zeros.                  *)
(***************************************************************************)
EXTENDS Integers, Sequences, FiniteSets, TLC

VARIABLES
    pc,             \* "ready" before the call, "returned" after it
    op,             \* which entry point was called
    row,            \* the input row: ordered <<column, value>> pairs
    depositMapping, \* the deposit mapping handed to transformRow
    originalData,   \* options.originalData
    vendorId,       \* options.vendorId / the vendorId argument
    result,         \* what the call returned or threw
    arg,            \* the argument of a helper called on its own
    \* streamProcessFile: one run over an input file
    fileType,       \* getFileType(inputPath)
    transformFn,    \* the vendor whose transformRow the run applies
    csvStream,      \* the parsed rows not yet handed to the data handler
    isFirstRow,     \* no header has been written yet
    headers,        \* the column names of the header line
    written,        \* the lines written to the output after the BOM
    processed,      \* the number of rows written
    warnings,       \* the warnings collected by the run
    promise,        \* "pending", "resolved", "rejected" or "uncaught"
    \* a collection of rows given to transformRow calls that may overlap
    batch,          \* the rows, one call per row
    callPc,         \* per call: "idle", "entered", "filled" or "returned"
    heap,           \* per call: the objects its body allocated and fills
    returned,       \* per call: the {transformedRow, warnings} it returned
    \* the API routes and the background jobs they start
    dbConnected,    \* isDbConnected(): MongoDB, else the memory store
    uploadStore,    \* the Upload collection
    transformStore, \* the Transform collection
    jobs,           \* per transformation: its setImmediate job
    files,          \* the transformations whose output file exists
    response,       \* the response to the last request
    uploaded,       \* per upload: the vendor id POST /upload-file answered
    deleted         \* the transformations whose DELETE answered success

callVars == <<pc, op, row, depositMapping, originalData, vendorId, result, arg>>

streamVars ==
    <<fileType, transformFn, csvStream, isFirstRow, headers, written,
      processed, warnings, promise>>

batchVars == <<batch, callPc, heap, returned>>

apiVars ==
    <<dbConnected, uploadStore, transformStore, jobs, files, response,
      uploaded, deleted>>

vars == <<callVars, streamVars, batchVars, apiVars>>

-----------------------------------------------------------------------------
(* Strings *)

E == <<>>

Undefined == <<"<undefined>">>

Digits == {"0", "1", "2", "3", "4", "5", "6", "7", "8", "9"}

WhiteSpace == {" "}

DigitVal(c) ==
    CASE c = "0" -> 0 [] c = "1" -> 1 [] c = "2" -> 2 [] c = "3" -> 3
      [] c = "4" -> 4 [] c = "5" -> 5 [] c = "6" -> 6 [] c = "7" -> 7
      [] c = "8" -> 8 [] c = "9" -> 9

DigitChar(n) ==
    CASE n = 0 -> "0" [] n = 1 -> "1" [] n = 2 -> "2" [] n = 3 -> "3"
      [] n = 4 -> "4" [] n = 5 -> "5" [] n = 6 -> "6" [] n = 7 -> "7"
      [] n = 8 -> "8" [] n = 9 -> "9"

AllDigits(s) == \A i \in 1..Len(s) : s[i] \in Digits

\* JS truthiness of a string-or-undefined value
Truthy(v) == v # Undefined /\ v # E

\* a || b that never takes b
OrLeft(a, b) == a

\* a || b
Or(a, b) == IF Truthy(a) THEN a ELSE b

RECURSIVE TrimLeft(_)
TrimLeft(s) ==
    IF s # E /\ Head(s) \in WhiteSpace THEN TrimLeft(Tail(s)) ELSE s

RECURSIVE TrimRight(_)
TrimRight(s) ==
    IF s # E /\ s[Len(s)] \in WhiteSpace
    THEN TrimRight(SubSeq(s, 1, Len(s) - 1))
    ELSE s

\* String.prototype.trim
Trim(s) == TrimRight(TrimLeft(s))

\* String.prototype.padStart(n, '0')
RECURSIVE PadStart(_, _)
PadStart(s, n) == IF Len(s) >= n THEN s ELSE PadStart(<<"0">> \o s, n)

UpperChar(c) ==
    CASE c = "y" -> "Y" [] c = "n" -> "N" [] c = "x" -> "X" [] c = "e" -> "E"
      [] OTHER -> c

\* String.prototype.toUpperCase
ToUpperCase(s) == [i \in 1..Len(s) |-> UpperChar(s[i])]

\* the longest prefix of s made of digits
RECURSIVE TakeDigits(_)
TakeDigits(s) ==
    IF s # E /\ Head(s) \in Digits
    THEN <<Head(s)>> \o TakeDigits(Tail(s))
    ELSE E

RECURSIVE StripLeadingZeros(_)
StripLeadingZeros(s) ==
    IF s # E /\ Head(s) = "0" THEN StripLeadingZeros(Tail(s)) ELSE s

RECURSIVE StripTrailingZeros(_)
StripTrailingZeros(s) ==
    IF s # E /\ s[Len(s)] = "0"
    THEN StripTrailingZeros(SubSeq(s, 1, Len(s) - 1))
    ELSE s

\* the value of a digit string (parseInt on digits)
RECURSIVE DigitsToNat(_)
DigitsToNat(s) ==
    IF s = E THEN 0
    ELSE 10 * DigitsToNat(SubSeq(s, 1, Len(s) - 1)) + DigitVal(s[Len(s)])

RECURSIVE NatToDigits(_)
NatToDigits(n) ==
    IF n < 10 THEN <<DigitChar(n)>>
    ELSE NatToDigits(n \div 10) \o <<DigitChar(n % 10)>>

\* s.split(sep) for a one-character separator
RECURSIVE Split(_, _)
Split(s, sep) ==
    IF \A i \in 1..Len(s) : s[i] # sep THEN <<s>>
    ELSE LET i == CHOOSE j \in 1..Len(s) :
                      s[j] = sep /\ \A k \in 1..(j - 1) : s[k] # sep
         IN  <<SubSeq(s, 1, i - 1)>> \o Split(SubSeq(s, i + 1, Len(s)), sep)

-----------------------------------------------------------------------------
(* Numbers: parseFloat and Number.prototype.toString on plain decimals *)

NaN == [nan |-> TRUE, neg |-> FALSE, ip |-> E, fp |-> E]

Num(neg, ip, fp) ==
    [nan |-> FALSE, neg |-> neg,
     ip |-> StripLeadingZeros(ip), fp |-> StripTrailingZeros(fp)]

\* parseFloat on a string without exponent: optional '-', digits, optional
\* '.' and digits; whatever follows the longest such prefix is ignored
ParseFloatPlain(s) ==
    LET Value(neg, ipr, fpr) ==
            IF ipr = E /\ fpr = E THEN NaN ELSE Num(neg, ipr, fpr)
        AfterInt(neg, ipr, r2) ==
            Value(neg, ipr,
                  IF r2 # E /\ Head(r2) = "." THEN TakeDigits(Tail(r2)) ELSE E)
        WithInt(neg, r, ipr) == AfterInt(neg, ipr, SubSeq(r, Len(ipr) + 1, Len(r)))
        Unsigned(neg, r) == WithInt(neg, r, TakeDigits(r))
    IN  Unsigned(s # E /\ Head(s) = "-",
                 IF s # E /\ Head(s) = "-" THEN Tail(s) ELSE s)

IsZero(n) == ~n.nan /\ n.ip = E /\ n.fp = E

\* n > 0
GtZero(n) == ~n.nan /\ ~n.neg /\ ~IsZero(n)

\* n > 1
GtOne(n) ==
    /\ GtZero(n)
    /\ \/ Len(n.ip) > 1
       \/ Len(n.ip) = 1 /\ n.ip # <<"1">>
       \/ n.ip = <<"1">> /\ n.fp # E

\* Number.prototype.toString; decimal notation is what JavaScript prints
\* for 1e-7 <= |n| < 1e21 with at most 15 significant digits
NumToString(n) ==
    (IF n.neg /\ ~IsZero(n) THEN <<"-">> ELSE E)
        \o (IF n.ip = E THEN <<"0">> ELSE n.ip)
        \o (IF n.fp = E THEN E ELSE <<".">> \o n.fp)

-----------------------------------------------------------------------------
(* Warnings: the message template and the values interpolated into it *)

NoWarning == [kind |-> "null", a |-> E, b |-> E]

Warning(kind, a, b) == [kind |-> kind, a |-> a, b |-> b]

\* if (x.warning) warnings.push(x.warning)
PushIf(w) == IF w = NoWarning THEN <<>> ELSE <<w>>

-----------------------------------------------------------------------------
(* helpers.js *)

\* transformUPC: remove exactly one leading zero
\* transformUPC without the trim
TransformUPCUntrimmed(upc) ==
    IF ~Truthy(upc) THEN upc
    ELSE IF Head(upc) = "0" THEN Tail(upc) ELSE upc

TransformUPC(upc) ==
    IF ~Truthy(upc) THEN upc
    ELSE LET upcStr == Trim(upc)
         IN  IF upcStr # E /\ Head(upcStr) = "0" THEN Tail(upcStr) ELSE upcStr

\* transformTAX1: Y -> 1, N -> empty, others preserved with a warning
TransformTAX1(tax1) ==
    IF ~Truthy(tax1) THEN [value |-> E, warning |-> NoWarning]
    ELSE LET tax1Str == ToUpperCase(Trim(tax1))
         IN  IF tax1Str = <<"Y">> THEN [value |-> <<"1">>, warning |-> NoWarning]
             ELSE IF tax1Str = <<"N">> THEN [value |-> E, warning |-> NoWarning]
             ELSE [value |-> tax1,
                   warning |-> Warning("TAX1 has unexpected value", tax1, E)]

\* preserveDepartmentID that lets the incoming value win
PreserveDepartmentIncomingWins(incomingDept, originalDept) ==
    IF ~Truthy(originalDept) \/ Truthy(incomingDept)
    THEN [value |-> Or(incomingDept, E), warning |-> NoWarning]
    ELSE [value |-> originalDept,
          warning |-> Warning("Department ID changed", originalDept, incomingDept)]

\* preserveDepartmentID
PreserveDepartmentID(incomingDept, originalDept) ==
    IF ~Truthy(originalDept)
    THEN [value |-> Or(incomingDept, E), warning |-> NoWarning]
    ELSE IF incomingDept # originalDept
    THEN [value |-> originalDept,
          warning |-> Warning("Department ID changed", originalDept, incomingDept)]
    ELSE [value |-> Or(incomingDept, E), warning |-> NoWarning]

NumericChars == Digits \cup {".", "-"}

\* parseNumeric: NaN stands for the null it returns
ParseNumeric(value) ==
    IF value = Undefined \/ value = E THEN NaN
    ELSE ParseFloatPlain(SelectSeq(value, LAMBDA c : c \in NumericChars))

\* str.match(/^(\d{l1})<sep>(\d{l2})<sep>(\d{l3})$/): the three groups, or
\* the empty sequence when the pattern does not match
MatchSep(str, sep, l1, l2, l3) ==
    LET Groups(parts) ==
            IF /\ Len(parts) = 3
               /\ \A i \in 1..3 : AllDigits(parts[i])
               /\ Len(parts[1]) \in l1 /\ Len(parts[2]) \in l2 /\ Len(parts[3]) \in l3
            THEN parts
            ELSE <<>>
    IN  Groups(Split(str, sep))

\* the compact /^(\d{4})(\d{2})(\d{2})$/
MatchCompact(str) ==
    IF Len(str) = 8 /\ AllDigits(str)
    THEN <<SubSeq(str, 1, 4), SubSeq(str, 5, 6), SubSeq(str, 7, 8)>>
    ELSE <<>>

\* 00-49 -> 20YY, 50-99 -> 19YY
ExpandYear(year) ==
    IF DigitsToNat(year) < 50
    THEN <<"2", "0">> \o PadStart(year, 2)
    ELSE <<"1", "9">> \o PadStart(year, 2)

\* the tail of normalizeDate: pad, validate, render YYYYMMDD
RenderDate(dateStr, year, month, day) ==
    LET Validated(mo, d, monthNum, dayNum) ==
            IF monthNum < 1 \/ monthNum > 12 \/ dayNum < 1 \/ dayNum > 31
            THEN [value |-> E, warning |-> Warning("Invalid date", dateStr, E)]
            ELSE [value |-> year \o mo \o d, warning |-> NoWarning]
        Padded(mo, d) == Validated(mo, d, DigitsToNat(mo), DigitsToNat(d))
    IN  Padded(PadStart(month, 2), PadStart(day, 2))

\* normalizeDate reading the slash format with a 4-digit year day-first
NormalizeDateSlashDayFirst(dateStr) ==
    IF ~Truthy(dateStr) THEN [value |-> E, warning |-> NoWarning]
    ELSE
    LET First(m0, m1, m2, m3, m4, m5) ==
            IF m0 # <<>> THEN RenderDate(dateStr, m0[1], m0[2], m0[3])
            ELSE IF m1 # <<>> THEN RenderDate(dateStr, m1[1], m1[2], m1[3])
            ELSE IF m2 # <<>> THEN RenderDate(dateStr, m2[3], m2[2], m2[1])
            ELSE IF m3 # <<>> THEN RenderDate(dateStr, m3[3], m3[2], m3[1])
            ELSE IF m4 # <<>> THEN RenderDate(dateStr, ExpandYear(m4[3]), m4[2], m4[1])
            ELSE IF m5 # <<>> THEN RenderDate(dateStr, ExpandYear(m5[3]), m5[2], m5[1])
            ELSE [value |-> E, warning |-> Warning("Could not parse date", dateStr, E)]
        Formats(str) ==
            First(MatchCompact(str),
                  MatchSep(str, "-", {4}, {1, 2}, {1, 2}),
                  MatchSep(str, "/", {1, 2}, {1, 2}, {4}),
                  MatchSep(str, "-", {1, 2}, {1, 2}, {4}),
                  MatchSep(str, "/", {1, 2}, {1, 2}, {2}),
                  MatchSep(str, "-", {1, 2}, {1, 2}, {2}))
    IN  Formats(Trim(dateStr))

\* normalizeDate: the first format that matches decides
NormalizeDate(dateStr) ==
    IF ~Truthy(dateStr) THEN [value |-> E, warning |-> NoWarning]
    ELSE
    LET First(m0, m1, m2, m3, m4, m5) ==
            IF m0 # <<>> THEN RenderDate(dateStr, m0[1], m0[2], m0[3])
            ELSE IF m1 # <<>> THEN RenderDate(dateStr, m1[1], m1[2], m1[3])
            ELSE IF m2 # <<>> THEN RenderDate(dateStr, m2[3], m2[1], m2[2])
            ELSE IF m3 # <<>> THEN RenderDate(dateStr, m3[3], m3[2], m3[1])
            ELSE IF m4 # <<>> THEN RenderDate(dateStr, ExpandYear(m4[3]), m4[2], m4[1])
            ELSE IF m5 # <<>> THEN RenderDate(dateStr, ExpandYear(m5[3]), m5[2], m5[1])
            ELSE [value |-> E, warning |-> Warning("Could not parse date", dateStr, E)]
        Formats(str) ==
            First(MatchCompact(str),
                  MatchSep(str, "-", {4}, {1, 2}, {1, 2}),
                  MatchSep(str, "/", {1, 2}, {1, 2}, {4}),
                  MatchSep(str, "-", {1, 2}, {1, 2}, {4}),
                  MatchSep(str, "/", {1, 2}, {1, 2}, {2}),
                  MatchSep(str, "-", {1, 2}, {1, 2}, {2}))
    IN  Formats(Trim(dateStr))

\* String.prototype.toLowerCase on the column names of the model
\* a case folding that also folds TAX2 onto tax1 and Proof onto upc
ToLowerCaseFoldingDropped(k) ==
    CASE k = "TAX2" -> "tax1" [] k = "TAX1" -> "tax1"
      [] k = "Proof" -> "upc" [] k = "UPC" -> "upc"
      [] OTHER -> k

ToLowerCase(k) ==
    CASE k = "Item" -> "item" [] k = "UPC" -> "upc" [] k = "Upc" -> "upc"
      [] k = "Description" -> "description" [] k = "Department" -> "department"
      [] k = "REG_RETAIL" -> "reg_retail" [] k = "PACK" -> "pack"
      [] k = "REGULARCOST" -> "regularcost" [] k = "TAX1" -> "tax1"
      [] k = "FOOD_STAMP" -> "food_stamp" [] k = "WIC" -> "wic"
      [] k = "BOTTLE_DEPOSIT" -> "bottle_deposit"
      [] k = "SALE_MULTIPLE" -> "sale_multiple" [] k = "SALE_RETAIL" -> "sale_retail"
      [] k = "SALE_COST" -> "sale_cost"
      [] k = "SALE_START_DATE" -> "sale_start_date"
      [] k = "SALE_END_DATE" -> "sale_end_date"
      [] k = "TPR_MULTIPLE" -> "tpr_multiple" [] k = "TRP_MULTIPLE" -> "trp_multiple"
      [] k = "TPR_RETAIL" -> "tpr_retail" [] k = "TRP_RETAIL" -> "trp_retail"
      [] k = "TPR_COST" -> "tpr_cost" [] k = "TRP_COST" -> "trp_cost"
      [] k = "TPR_START_DATE" -> "tpr_start_date"
      [] k = "TRP_START_DATE" -> "trp_start_date"
      [] k = "TPR_END_DATE" -> "tpr_end_date" [] k = "TRP_END_DATE" -> "trp_end_date"
      [] k = "ITEM_SIZE" -> "item_size"
      [] k = "Item #" -> "item #" [] k = "ItemNumber" -> "itemnumber"
      [] k = "Item No" -> "item no" [] k = "ItemNo" -> "itemno"
      [] k = "Desc" -> "desc" [] k = "Size" -> "size" [] k = "Unit" -> "unit"
      [] k = "UOM" -> "uom" [] k = "UPC Code" -> "upc code" [] k = "UPC#" -> "upc#"
      [] k = "Code" -> "code" [] k = "Barcode" -> "barcode"
      [] k = "Bar Code" -> "bar code" [] k = "EAN" -> "ean" [] k = "GTIN" -> "gtin"
      [] k = "Effective Start" -> "effective start"
      [] k = "EffectiveStart" -> "effectivestart" [] k = "Start Date" -> "start date"
      [] k = "Effective End" -> "effective end"
      [] k = "EffectiveEnd" -> "effectiveend" [] k = "End Date" -> "end date"
      [] k = "Retail" -> "retail" [] k = "Retail Price" -> "retail price"
      [] k = "Sale Price" -> "sale price" [] k = "SalePrice" -> "saleprice"
      [] k = "Special Price" -> "special price"
      [] k = "Agency Cost" -> "agency cost" [] k = "AgencyCost" -> "agencycost"
      [] k = "Cost" -> "cost" [] k = "Agency Sale Cost" -> "agency sale cost"
      [] k = "AgencySaleCost" -> "agencysalecost" [] k = "Sale Cost" -> "sale cost"
      [] k = "hasOwnProperty" -> "hasownproperty"
      [] k = "Status" -> "status" [] k = "BRAND" -> "brand" [] k = "Proof" -> "proof"
      [] k = "CaseUPC" -> "caseupc" [] k = "MANUFACTURER" -> "manufacturer"
      [] k = "REG_MULTIPLE" -> "reg_multiple" [] k = "CASE_RETAIL" -> "case_retail"
      [] k = "TAX2" -> "tax2" [] k = "TAX3" -> "tax3"
      [] k = "CASE_DEPOSIT" -> "case_deposit" [] k = "PRC_GRP" -> "prc_grp"
      [] k = "FUTURE_RETAIL" -> "future_retail" [] k = "FUTURE_COST" -> "future_cost"
      [] k = "PBHN" -> "pbhn" [] k = "CLASS" -> "class"
      [] k = "Retail Savings" -> "retail savings"
      [] k = "Agency Savings" -> "agency savings"
      [] OTHER -> k

\* the row's own column names, in insertion order
RowKeys(r) == [i \in 1..Len(r) |-> r[i][1]]

HasOwn(r, name) == \E i \in 1..Len(r) : r[i][1] = name

\* row.hasOwnProperty(...) resolves to Object.prototype.hasOwnProperty unless
\* the row has an own column of that name, whose string value is not callable
HasOwnPropertyCallable(r) == ~HasOwn(r, "hasOwnProperty")

\* getColumnValue: the exact key first, then the first key (in for-in order)
\* that matches case-insensitively
GetColumnValue(r, columnName) ==
    LET FirstMatch(lowerName, lowerKeys) ==
            IF \E i \in 1..Len(r) : lowerKeys[i] = lowerName
            THEN r[CHOOSE j \in 1..Len(r) :
                       /\ lowerKeys[j] = lowerName
                       /\ \A k \in 1..(j - 1) : lowerKeys[k] # lowerName][2]
            ELSE Undefined
    IN  IF HasOwn(r, columnName)
        THEN r[CHOOSE i \in 1..Len(r) : r[i][1] = columnName][2]
        ELSE FirstMatch(ToLowerCase(columnName),
                        [i \in 1..Len(r) |-> ToLowerCase(r[i][1])])

-----------------------------------------------------------------------------
(* What a call produces *)

NoError == [name |-> "none", requested |-> "", known |-> <<>>]

\* a JavaScript value handed to or returned by a helper called on its own:
\* its type and, for a string or a number, its String(...) text
JsValue(type, text) == [type |-> type, text |-> text]

NoValue == JsValue("none", <<>>)

Returned(tr, w) ==
    [kind |-> "ok", transformedRow |-> tr, warnings |-> w,
     columns |-> <<>>, transformer |-> "", error |-> NoError, value |-> NoValue]

ReturnedColumns(cols) ==
    [kind |-> "ok", transformedRow |-> <<>>, warnings |-> <<>>,
     columns |-> cols, transformer |-> "", error |-> NoError, value |-> NoValue]

ReturnedTransformer(t) ==
    [kind |-> "ok", transformedRow |-> <<>>, warnings |-> <<>>,
     columns |-> <<>>, transformer |-> t, error |-> NoError, value |-> NoValue]

Thrown(err) ==
    [kind |-> "throw", transformedRow |-> <<>>, warnings |-> <<>>,
     columns |-> <<>>, transformer |-> "", error |-> err, value |-> NoValue]

NoResult ==
    [kind |-> "none", transformedRow |-> <<>>, warnings |-> <<>>,
     columns |-> <<>>, transformer |-> "", error |-> NoError, value |-> NoValue]

ReturnedValue(v) ==
    [kind |-> "ok", transformedRow |-> <<>>, warnings |-> <<>>,
     columns |-> <<>>, transformer |-> "", error |-> NoError, value |-> v]

\* TypeError: row.hasOwnProperty is not a function
HasOwnPropertyTypeError ==
    [name |-> "TypeError: row.hasOwnProperty is not a function",
     requested |-> "", known |-> <<>>]

\* obj[key] on a mapping object whose keys are strings of the model
MapGet(m, k) == IF k \in DOMAIN m THEN m[k] ELSE Undefined

-----------------------------------------------------------------------------
(* transformers/agne.js *)

\* AgneFeeID that blanks an unmatched deposit value and warns
AgneFeeIDBlanksDeposit(existingDeposit, upcOut, productCode, mapping) ==
    LET itemKey == Or(upcOut, productCode)
        numeric == ParseNumeric(existingDeposit)
        missing == [fee |-> E,
                    warnings |-> IF Truthy(itemKey)
                                 THEN <<Warning("No deposit mapping found for UPC/Item",
                                                itemKey, E)>>
                                 ELSE <<>>]
    IN  IF Truthy(existingDeposit) /\ Truthy(MapGet(mapping, existingDeposit))
        THEN [fee |-> MapGet(mapping, existingDeposit), warnings |-> <<>>]
        ELSE IF /\ Truthy(existingDeposit) /\ ~numeric.nan
                /\ Truthy(MapGet(mapping, NumToString(numeric)))
        THEN [fee |-> MapGet(mapping, NumToString(numeric)), warnings |-> <<>>]
        ELSE IF Truthy(MapGet(mapping, itemKey))
        THEN [fee |-> MapGet(mapping, itemKey), warnings |-> <<>>]
        ELSE missing

\* AgneFeeID that consults the UPC/item key before the deposit value
AgneFeeIDKeyFirst(existingDeposit, upcOut, productCode, mapping) ==
    LET itemKey == Or(upcOut, productCode)
        numeric == ParseNumeric(existingDeposit)
    IN  IF Truthy(MapGet(mapping, itemKey))
        THEN [fee |-> MapGet(mapping, itemKey), warnings |-> <<>>]
        ELSE IF Truthy(existingDeposit) /\ Truthy(MapGet(mapping, existingDeposit))
        THEN [fee |-> MapGet(mapping, existingDeposit), warnings |-> <<>>]
        ELSE IF /\ Truthy(existingDeposit) /\ ~numeric.nan
                /\ Truthy(MapGet(mapping, NumToString(numeric)))
        THEN [fee |-> MapGet(mapping, NumToString(numeric)), warnings |-> <<>>]
        ELSE IF Truthy(existingDeposit)
        THEN [fee |-> existingDeposit, warnings |-> <<>>]
        ELSE [fee |-> E,
              warnings |-> IF Truthy(itemKey)
                           THEN <<Warning("No deposit mapping found for UPC/Item",
                                          itemKey, E)>>
                           ELSE <<>>]

\* 18. BOTTLE_DEPOSIT: the fee identifier and the warnings it pushes
AgneFeeID(existingDeposit, upcOut, productCode, mapping) ==
    LET itemKey == Or(upcOut, productCode)
    IN  IF Truthy(existingDeposit)
        THEN IF Truthy(MapGet(mapping, existingDeposit))
             THEN [fee |-> MapGet(mapping, existingDeposit), warnings |-> <<>>]
             ELSE LET normalizedDeposit == ParseNumeric(existingDeposit)
                  IN  IF /\ ~normalizedDeposit.nan
                         /\ Truthy(MapGet(mapping, NumToString(normalizedDeposit)))
                      THEN [fee |-> MapGet(mapping, NumToString(normalizedDeposit)),
                            warnings |-> <<>>]
                      ELSE IF Truthy(MapGet(mapping, itemKey))
                      THEN [fee |-> MapGet(mapping, itemKey), warnings |-> <<>>]
                      ELSE [fee |-> existingDeposit, warnings |-> <<>>]
        ELSE IF Truthy(MapGet(mapping, itemKey))
             THEN [fee |-> MapGet(mapping, itemKey), warnings |-> <<>>]
             ELSE [fee |-> E,
                   warnings |-> IF Truthy(itemKey)
                                THEN <<Warning("No deposit mapping found for UPC/Item",
                                               itemKey, E)>>
                                ELSE <<>>]

\* AgneSpecial without the has-data gate
AgneSpecialUngated(multipleRaw, retail, cost, startDate, endDate, regRetail) ==
    LET multiple == ParseNumeric(multipleRaw)
    IN  IF GtOne(multiple)
        THEN [groupPrice |-> Or(retail, E), price |-> Or(regRetail, E),
              method |-> <<"2">>, quantity |-> Or(multipleRaw, E)]
        ELSE [groupPrice |-> E, price |-> Or(retail, E),
              method |-> <<"0">>, quantity |-> E]

\* AgneSpecial that keeps the special price as the per-unit price of a
\* multi-unit deal
AgneSpecialKeepsPrice(multipleRaw, retail, cost, startDate, endDate, regRetail) ==
    LET multiple == ParseNumeric(multipleRaw)
        hasData  == \/ Truthy(retail) \/ Truthy(cost)
                    \/ Truthy(startDate) \/ Truthy(endDate)
                    \/ GtZero(multiple)
    IN  IF hasData
        THEN IF GtOne(multiple)
             THEN [groupPrice |-> Or(retail, E), price |-> Or(retail, E),
                   method |-> <<"2">>, quantity |-> Or(multipleRaw, E)]
             ELSE [groupPrice |-> E, price |-> Or(retail, E),
                   method |-> <<"0">>, quantity |-> E]
        ELSE [groupPrice |-> E, price |-> E, method |-> E, quantity |-> E]

\* AgneSpecial that takes the multi-unit branch from a multiplier > 0
AgneSpecialFromOne(multipleRaw, retail, cost, startDate, endDate, regRetail) ==
    LET multiple == ParseNumeric(multipleRaw)
        hasData  == \/ Truthy(retail) \/ Truthy(cost)
                    \/ Truthy(startDate) \/ Truthy(endDate)
                    \/ GtZero(multiple)
    IN  IF hasData
        THEN IF GtZero(multiple)
             THEN [groupPrice |-> Or(retail, E), price |-> Or(regRetail, E),
                   method |-> <<"2">>, quantity |-> Or(multipleRaw, E)]
             ELSE [groupPrice |-> E, price |-> Or(retail, E),
                   method |-> <<"0">>, quantity |-> E]
        ELSE [groupPrice |-> E, price |-> E, method |-> E, quantity |-> E]

\* AgneSpecial whose single-unit branch keeps the multiplier as the quantity
AgneSpecialKeepsQuantity(multipleRaw, retail, cost, startDate, endDate, regRetail) ==
    LET multiple == ParseNumeric(multipleRaw)
        hasData  == \/ Truthy(retail) \/ Truthy(cost)
                    \/ Truthy(startDate) \/ Truthy(endDate)
                    \/ GtZero(multiple)
    IN  IF hasData
        THEN IF GtOne(multiple)
             THEN [groupPrice |-> Or(retail, E), price |-> Or(regRetail, E),
                   method |-> <<"2">>, quantity |-> Or(multipleRaw, E)]
             ELSE [groupPrice |-> E, price |-> Or(retail, E),
                   method |-> <<"0">>, quantity |-> Or(multipleRaw, E)]
        ELSE [groupPrice |-> E, price |-> E, method |-> E, quantity |-> E]

\* 21. / 25. one special-pricing group: multiple is the raw multiplier text,
\* retail the group's special price, regRetail the regular price
AgneSpecial(multipleRaw, retail, cost, startDate, endDate, regRetail) ==
    LET multiple == ParseNumeric(multipleRaw)
        hasData  == \/ Truthy(retail) \/ Truthy(cost)
                    \/ Truthy(startDate) \/ Truthy(endDate)
                    \/ GtZero(multiple)
    IN  IF hasData
        THEN IF GtOne(multiple)
             THEN [groupPrice |-> Or(retail, E), price |-> Or(regRetail, E),
                   method |-> <<"2">>, quantity |-> Or(multipleRaw, E)]
             ELSE [groupPrice |-> E, price |-> Or(retail, E),
                   method |-> <<"0">>, quantity |-> E]
        ELSE [groupPrice |-> E, price |-> E, method |-> E, quantity |-> E]

\* transformRow of agne.js
AgneTransformRow(r, mapping, origData) ==
    IF ~HasOwnPropertyCallable(r) THEN Thrown(HasOwnPropertyTypeError)
    ELSE
    LET getValue(name) == GetColumnValue(r, name)
        Build(productCode, upcOut, regRetail, deptResult, tax1Result, fee,
              sale, saleStartResult, saleEndResult,
              tpr, tprStartResult, tprEndResult) ==
            Returned(
                   ("Vendor ID" :> <<"3">>)
                @@ ("Product Code" :> productCode)
                @@ ("UPC" :> upcOut)
                @@ ("Description" :> Or(getValue("Description"), E))
                @@ ("Department ID" :> deptResult.value)
                @@ ("Price" :> Or(regRetail, E))
                @@ ("Pack" :> Or(getValue("PACK"), E))
                @@ ("Cost" :> Or(getValue("REGULARCOST"), E))
                @@ ("Tax ID" :> tax1Result.value)
                @@ ("Foodstamp Eligible" :> Or(getValue("FOOD_STAMP"), E))
                @@ ("WIC Eligible" :> Or(getValue("WIC"), E))
                @@ ("Fee ID" :> fee.fee)
                @@ ("Special Group Price" :> sale.groupPrice)
                @@ ("Special Price" :> sale.price)
                @@ ("Special Price Method" :> sale.method)
                @@ ("Special Quantity" :> sale.quantity)
                @@ ("Special Cost" :> Or(getValue("SALE_COST"), E))
                @@ ("Start Date" :> saleStartResult.value)
                @@ ("End Date" :> saleEndResult.value)
                @@ ("Special Group Price #2" :> tpr.groupPrice)
                @@ ("Special Price #2" :> tpr.price)
                @@ ("Special Price Method #2" :> tpr.method)
                @@ ("Special Quantity #2" :> tpr.quantity)
                @@ ("Special Cost #2" :>
                        Or(Or(getValue("TPR_COST"), getValue("TRP_COST")), E))
                @@ ("Start Date #2" :> tprStartResult.value)
                @@ ("End Date #2" :> tprEndResult.value)
                @@ ("Size" :> Or(getValue("ITEM_SIZE"), E)),
                   PushIf(deptResult.warning)
                \o PushIf(tax1Result.warning)
                \o fee.warnings
                \o PushIf(saleStartResult.warning)
                \o PushIf(saleEndResult.warning)
                \o PushIf(tprStartResult.warning)
                \o PushIf(tprEndResult.warning))
        Keyed(productCode, upcOut, regRetail) ==
            Build(productCode, upcOut, regRetail,
                  PreserveDepartmentID(getValue("Department"),
                                       MapGet(origData, productCode)),
                  TransformTAX1(getValue("TAX1")),
                  AgneFeeID(getValue("BOTTLE_DEPOSIT"), upcOut, productCode, mapping),
                  AgneSpecial(getValue("SALE_MULTIPLE"), getValue("SALE_RETAIL"),
                              getValue("SALE_COST"), getValue("SALE_START_DATE"),
                              getValue("SALE_END_DATE"), regRetail),
                  NormalizeDate(getValue("SALE_START_DATE")),
                  NormalizeDate(getValue("SALE_END_DATE")),
                  AgneSpecial(Or(getValue("TPR_MULTIPLE"), getValue("TRP_MULTIPLE")),
                              Or(getValue("TPR_RETAIL"), getValue("TRP_RETAIL")),
                              Or(getValue("TPR_COST"), getValue("TRP_COST")),
                              Or(getValue("TPR_START_DATE"), getValue("TRP_START_DATE")),
                              Or(getValue("TPR_END_DATE"), getValue("TRP_END_DATE")),
                              regRetail),
                  NormalizeDate(Or(getValue("TPR_START_DATE"),
                                   getValue("TRP_START_DATE"))),
                  NormalizeDate(Or(getValue("TPR_END_DATE"),
                                   getValue("TRP_END_DATE"))))
    IN  Keyed(Or(getValue("Item"), E), TransformUPC(getValue("UPC")),
              getValue("REG_RETAIL"))

\* getOutputColumns of agne.js
AgneGetOutputColumns ==
    <<"Vendor ID", "Product Code", "UPC", "Description", "Department ID", "Price",
      "Pack", "Cost", "Tax ID", "Foodstamp Eligible", "WIC Eligible", "Fee ID",
      "Special Price Method", "Special Price", "Special Quantity",
      "Special Group Price", "Start Date", "End Date", "Special Cost",
      "Special Price Method #2", "Special Price #2", "Special Quantity #2",
      "Special Group Price #2", "Start Date #2", "End Date #2", "Special Cost #2",
      "Size">>

-----------------------------------------------------------------------------
(* transformers/pine-state-spirits.js *)

Zeros(n) == [i \in 1..n |-> "0"]

\* a digit string plus one
RECURSIVE IncDigits(_)
IncDigits(s) ==
    IF s = E THEN <<"1">>
    ELSE IF s[Len(s)] = "9"
    THEN IncDigits(SubSeq(s, 1, Len(s) - 1)) \o <<"0">>
    ELSE SubSeq(s, 1, Len(s) - 1) \o <<DigitChar(DigitVal(s[Len(s)]) + 1)>>

\* parseFloat on a trimmed string: sign, digits, fraction, then an exponent
\* when 'e' or 'E' is followed by an optionally signed digit string
ParseFloat(s) ==
    LET Value(neg, all, pos) ==
            IF pos >= Len(all) THEN Num(neg, all \o Zeros(pos - Len(all)), E)
            ELSE IF pos <= 0 THEN Num(neg, E, Zeros(0 - pos) \o all)
            ELSE Num(neg, SubSeq(all, 1, pos), SubSeq(all, pos + 1, Len(all)))
        Signed(eneg, edig) ==
            IF edig = E THEN 0
            ELSE IF eneg THEN 0 - DigitsToNat(edig) ELSE DigitsToNat(edig)
        Exponent(r4) ==
            Signed(r4 # E /\ Head(r4) = "-",
                   TakeDigits(IF r4 # E /\ Head(r4) \in {"-", "+"}
                              THEN Tail(r4) ELSE r4))
        AfterFrac(neg, ipr, fpr, r3) ==
            IF ipr = E /\ fpr = E THEN NaN
            ELSE Value(neg, ipr \o fpr,
                       Len(ipr) + (IF r3 # E /\ Head(r3) \in {"e", "E"}
                                   THEN Exponent(Tail(r3)) ELSE 0))
        WithFrac(neg, ipr, r2, fpr) ==
            AfterFrac(neg, ipr, fpr, SubSeq(r2, Len(fpr) + 2, Len(r2)))
        AfterInt(neg, ipr, r2) ==
            IF r2 # E /\ Head(r2) = "."
            THEN WithFrac(neg, ipr, r2, TakeDigits(Tail(r2)))
            ELSE AfterFrac(neg, ipr, E, r2)
        WithInt(neg, r, ipr) == AfterInt(neg, ipr, SubSeq(r, Len(ipr) + 1, Len(r)))
        Unsigned(neg, r) == WithInt(neg, r, TakeDigits(r))
    IN  Unsigned(s # E /\ Head(s) = "-",
                 IF s # E /\ Head(s) \in {"-", "+"} THEN Tail(s) ELSE s)

\* num.toLocaleString('fullwide', {useGrouping: false}): plain decimal
\* notation with at most three fraction digits, rounded half away from zero
ToLocaleStringFullwide(n) ==
    LET Render(whole, k, fpo) ==
            (IF n.neg /\ StripLeadingZeros(whole) # E THEN <<"-">> ELSE E)
                \o SubSeq(whole, 1, Len(whole) - k)
                \o (IF fpo = E THEN E ELSE <<".">> \o fpo)
        Rounded(whole, k) ==
            Render(whole, k,
                   StripTrailingZeros(SubSeq(whole, Len(whole) - k + 1, Len(whole))))
        Kept(ipd, keep) ==
            Rounded(IF Len(n.fp) > 3 /\ DigitVal(n.fp[4]) >= 5
                    THEN IncDigits(ipd \o keep) ELSE ipd \o keep,
                    Len(keep))
    IN  Kept(IF n.ip = E THEN <<"0">> ELSE n.ip,
             SubSeq(n.fp, 1, IF Len(n.fp) < 3 THEN Len(n.fp) ELSE 3))

\* padUPC: keep the digits, left-pad to 13
\* padUPC that pads to 12 digits
PadUPCTo12(upc) ==
    IF upc = Undefined \/ upc = E THEN E
    ELSE
    LET Padded(digits) ==
            IF Len(digits) = 0 THEN E
            ELSE IF Len(digits) >= 13 THEN digits
            ELSE PadStart(digits, 12)
    IN  Padded(SelectSeq(Trim(upc), LAMBDA c : c \in Digits))

PadUPC(upc) ==
    IF upc = Undefined \/ upc = E THEN E
    ELSE
    LET Padded(digits) ==
            IF Len(digits) = 0 THEN E
            ELSE IF Len(digits) >= 13 THEN digits
            ELSE PadStart(digits, 13)
        Expanded(upcStr, num) ==
            IF (\E i \in 1..Len(upcStr) : upcStr[i] \in {"e", "E"}) /\ ~num.nan
            THEN ToLocaleStringFullwide(num) ELSE upcStr
        Trimmed(upcStr) ==
            Padded(SelectSeq(Expanded(upcStr, ParseFloat(upcStr)),
                             LAMBDA c : c \in Digits))
    IN  Trimmed(Trim(upc))

\* toFourDigitYear of formatDateDDMMYYYY
ToFourDigitYear(yy) ==
    LET n == DigitsToNat(yy)
    IN  IF n < 50 THEN <<"2", "0">> \o PadStart(NatToDigits(n), 2)
        ELSE <<"1", "9">> \o PadStart(NatToDigits(n), 2)

Quotes == {"'", "\""}

\* s.replace(/^['"]|['"]$/g, '')
StripQuotes(s) ==
    LET a == IF s # E /\ Head(s) \in Quotes THEN Tail(s) ELSE s
    IN  IF a # E /\ a[Len(a)] \in Quotes THEN SubSeq(a, 1, Len(a) - 1) ELSE a

\* `${pad2(d)}-${pad2(mo)}-${y}`
DDMMYYYY(d, mo, y) ==
    [value |-> PadStart(d, 2) \o <<"-">> \o PadStart(mo, 2) \o <<"-">> \o y,
     warning |-> NoWarning]

\* formatDateDDMMYYYY reading the slash format with a 2-digit year day-first
FormatDateShortSlashDayFirst(dateStr) ==
    IF dateStr = Undefined THEN [value |-> E, warning |-> NoWarning]
    ELSE IF Trim(dateStr) = E THEN [value |-> E, warning |-> NoWarning]
    ELSE
    LET First(raw, m1, m2, m3, m4, m5, m7) ==
            IF m1 # <<>> THEN DDMMYYYY(m1[3], m1[2], m1[1])
            ELSE IF m2 # <<>> THEN DDMMYYYY(m2[3], m2[2], m2[1])
            ELSE IF m3 # <<>> THEN DDMMYYYY(m3[1], m3[2], m3[3])
            ELSE IF m4 # <<>> THEN DDMMYYYY(m4[1], m4[2], m4[3])
            ELSE IF m5 # <<>> THEN DDMMYYYY(m5[1], m5[2], ToFourDigitYear(m5[3]))
            ELSE IF m7 # <<>> THEN DDMMYYYY(m7[1], m7[2], ToFourDigitYear(m7[3]))
            ELSE [value |-> E, warning |-> Warning("Could not parse date", raw, E)]
        Patterns(raw) ==
            First(raw, MatchCompact(raw),
                  MatchSep(raw, "-", {4}, {1, 2}, {1, 2}),
                  MatchSep(raw, "-", {1, 2}, {1, 2}, {4}),
                  MatchSep(raw, "/", {1, 2}, {1, 2}, {4}),
                  MatchSep(raw, "-", {1, 2}, {1, 2}, {2}),
                  MatchSep(raw, "/", {1, 2}, {1, 2}, {2}))
    IN  Patterns(Trim(StripQuotes(Trim(dateStr))))

\* formatDateDDMMYYYY: the patterns in the order the code tries them (its
\* sixth pattern repeats the fourth and can never be the first to match)
FormatDateDDMMYYYY(dateStr) ==
    IF dateStr = Undefined THEN [value |-> E, warning |-> NoWarning]
    ELSE IF Trim(dateStr) = E THEN [value |-> E, warning |-> NoWarning]
    ELSE
    LET First(raw, m1, m2, m3, m4, m5, m7) ==
            IF m1 # <<>> THEN DDMMYYYY(m1[3], m1[2], m1[1])
            ELSE IF m2 # <<>> THEN DDMMYYYY(m2[3], m2[2], m2[1])
            ELSE IF m3 # <<>> THEN DDMMYYYY(m3[1], m3[2], m3[3])
            ELSE IF m4 # <<>> THEN DDMMYYYY(m4[1], m4[2], m4[3])
            ELSE IF m5 # <<>> THEN DDMMYYYY(m5[1], m5[2], ToFourDigitYear(m5[3]))
            ELSE IF m7 # <<>> THEN DDMMYYYY(m7[2], m7[1], ToFourDigitYear(m7[3]))
            ELSE [value |-> E, warning |-> Warning("Could not parse date", raw, E)]
        Patterns(raw) ==
            First(raw, MatchCompact(raw),
                  MatchSep(raw, "-", {4}, {1, 2}, {1, 2}),
                  MatchSep(raw, "-", {1, 2}, {1, 2}, {4}),
                  MatchSep(raw, "/", {1, 2}, {1, 2}, {4}),
                  MatchSep(raw, "-", {1, 2}, {1, 2}, {2}),
                  MatchSep(raw, "/", {1, 2}, {1, 2}, {2}))
    IN  Patterns(Trim(StripQuotes(Trim(dateStr))))

\* 2^k mod 25 for k in 0..19 (2 has order 20 modulo 25)
Pow2Mod25 == <<1, 2, 4, 8, 16, 7, 14, 3, 6, 12, 24, 23, 21, 17, 9, 18, 11, 22, 19, 13>>

RECURSIVE FloorLog2(_)
FloorLog2(k) == IF k < 2 THEN 0 ELSE 1 + FloorLog2(k \div 2)

\* the least j with m * 2^j >= 25
RECURSIVE ShiftsTo25(_)
ShiftsTo25(m) == IF m >= 25 THEN 0 ELSE 1 + ShiftsTo25(2 * m)

\* The number that parseFloat returns for a decimal text is the nearest
\* double, and toFixed rounds that double, not the text.  For thousandths
\* t = 5 * m (m odd), the value t/1000 = (m/25)/8 lies exactly halfway
\* between two cents; its double is (m/25 rounded to 53 bits)/8.  With
\* 2^e <= m/25 < 2^(e+1), the part of m/25 below the last kept bit is
\* r/25 ulp where r = m * 2^(52-e) mod 25: the double is the value itself
\* when r = 0, above it when r >= 13 and below it otherwise.
NearestDoubleNotBelow(thousandths) ==
    LET Remainder(m, e) == ((m % 25) * Pow2Mod25[((52 - e) % 20) + 1]) % 25
        Odd(m) ==
            Remainder(m, IF m >= 25 THEN FloorLog2(m \div 25) ELSE 0 - ShiftsTo25(m))
    IN  Odd(thousandths \div 5) \notin 1..12

\* toFixed(2) that drops the digits after the second decimal
ToFixed2Truncating(n) ==
    LET Render(whole) ==
            (IF n.neg /\ ~IsZero(n) THEN <<"-">> ELSE E)
                \o SubSeq(whole, 1, Len(whole) - 2)
                \o <<".">> \o SubSeq(whole, Len(whole) - 1, Len(whole))
    IN  Render((IF n.ip = E THEN <<"0">> ELSE n.ip)
                   \o SubSeq(n.fp \o <<"0", "0">>, 1, 2))

\* Number.prototype.toFixed(2) on the decimal digits of n (texts of at most
\* 9 significant digits, below 1e21): the cent nearest to the double, the
\* larger one when the double is exactly halfway
ToFixed2(n) ==
    LET Render(whole) ==
            (IF n.neg /\ ~IsZero(n) THEN <<"-">> ELSE E)
                \o SubSeq(whole, 1, Len(whole) - 2)
                \o <<".">> \o SubSeq(whole, Len(whole) - 1, Len(whole))
        Cents(digits) ==
            Render(IF Len(n.fp) = 3 /\ n.fp[3] = "5"
                   THEN (IF NearestDoubleNotBelow(DigitsToNat(n.ip \o n.fp))
                         THEN IncDigits(digits) ELSE digits)
                   ELSE IF Len(n.fp) > 2 /\ DigitVal(n.fp[3]) >= 5
                   THEN IncDigits(digits) ELSE digits)
    IN  Cents((IF n.ip = E THEN <<"0">> ELSE n.ip)
                  \o SubSeq(n.fp \o <<"0", "0">>, 1, 2))

\* formatPrice
FormatPrice(value) ==
    IF ~Truthy(value) THEN E
    ELSE LET Fixed(numeric) == IF numeric.nan THEN E ELSE ToFixed2(numeric)
         IN  Fixed(ParseNumeric(value))

\* setItemNumber without the trim
PineItemNumberUntrimmed(rawItem) ==
    IF Trim(rawItem) = E THEN E
    ELSE IF AllDigits(rawItem) THEN PadStart(rawItem, 6) ELSE rawItem

\* setItemNumber
PineItemNumber(rawItem) ==
    IF Trim(rawItem) = E THEN E
    ELSE LET Padded(itemStr) ==
                 IF AllDigits(itemStr) THEN PadStart(itemStr, 6) ELSE itemStr
         IN  Padded(Trim(rawItem))

\* one price column: the formatted value and the warning it may push
PinePrice(raw, what, item) ==
    LET Formatted(v) ==
            [value |-> v,
             warnings |-> IF ~Truthy(v) /\ Truthy(raw)
                          THEN <<Warning(what, item, E)>> ELSE <<>>]
    IN  Formatted(FormatPrice(raw))

\* transformRow of pine-state-spirits.js
PineTransformRow(r, mapping, origData) ==
    IF ~HasOwnPropertyCallable(r) THEN Thrown(HasOwnPropertyTypeError)
    ELSE
    LET getValue(name) == GetColumnValue(r, name)
        Build(item, upcRaw, upcOut, startResult, endResult,
              retail, sale, agency, agencySale) ==
            Returned(
                   ("Item #" :> item)
                @@ ("Description" :> Or(Or(getValue("Description"), getValue("Desc")), E))
                @@ ("Size" :> Or(getValue("Size"), E))
                @@ ("Unit" :> Or(Or(getValue("Unit"), getValue("UOM")), E))
                @@ ("UPC" :> upcOut)
                @@ ("Effective Start" :> startResult.value)
                @@ ("Effective End" :> endResult.value)
                @@ ("Retail" :> retail.value)
                @@ ("Special Pricing Method" :> <<"0">>)
                @@ ("Sale Price" :> sale.value)
                @@ ("Agency Cost" :> agency.value)
                @@ ("Agency Sale Cost" :> agencySale.value),
                   (IF ~Truthy(upcRaw) \/ Trim(upcRaw) = E THEN <<>>
                    ELSE IF ~Truthy(upcOut)
                    THEN <<Warning("Could not normalize UPC for item", item, upcRaw)>>
                    ELSE <<>>)
                \o PushIf(startResult.warning)
                \o PushIf(endResult.warning)
                \o retail.warnings
                \o sale.warnings
                \o agency.warnings
                \o agencySale.warnings)
        Keyed(item, upcRaw) ==
            Build(item, upcRaw, PadUPC(upcRaw),
                  FormatDateDDMMYYYY(Or(Or(getValue("Effective Start"),
                      getValue("EffectiveStart")), getValue("Start Date"))),
                  FormatDateDDMMYYYY(Or(Or(getValue("Effective End"),
                      getValue("EffectiveEnd")), getValue("End Date"))),
                  PinePrice(Or(getValue("Retail"), getValue("Retail Price")),
                            "Invalid retail price for item", item),
                  PinePrice(Or(Or(getValue("Sale Price"), getValue("SalePrice")),
                               getValue("Special Price")),
                            "Invalid sale price for item", item),
                  PinePrice(Or(Or(getValue("Agency Cost"), getValue("AgencyCost")),
                               getValue("Cost")),
                            "Invalid agency cost for item", item),
                  PinePrice(Or(Or(getValue("Agency Sale Cost"),
                                  getValue("AgencySaleCost")), getValue("Sale Cost")),
                            "Invalid agency sale cost for item", item))
    IN  Keyed(PineItemNumber(
                  Or(Or(Or(Or(Or(getValue("Item #"), getValue("Item")),
                     getValue("ItemNumber")), getValue("Item No")),
                     getValue("ItemNo")), E)),
              Or(Or(Or(Or(Or(Or(Or(Or(Or(getValue("UPC"), getValue("UPC Code")),
                 getValue("UPC#")), getValue("Code")), getValue("Barcode")),
                 getValue("Bar Code")), getValue("EAN")), getValue("GTIN")),
                 getValue("Upc")), E))

\* getOutputColumns of pine-state-spirits.js
PineGetOutputColumns ==
    <<"Item #", "Description", "Size", "Unit", "UPC", "Effective Start",
      "Effective End", "Retail", "Special Pricing Method", "Sale Price",
      "Agency Cost", "Agency Sale Cost">>

-----------------------------------------------------------------------------
(* transformers/vendorRegistry.js and the dispatching transformer.js *)

\* const vendorRegistry = { AGNE: agneTransformer }
VendorRegistry == [AGNE |-> "agneTransformer"]

\* Object.keys(vendorRegistry)
RegistryKeys == <<"AGNE">>

\* the property names every plain object inherits from Object.prototype
ObjectPrototypeKeys ==
    {"constructor", "toString", "toLocaleString", "valueOf", "hasOwnProperty",
     "isPrototypeOf", "propertyIsEnumerable", "__proto__",
     "__defineGetter__", "__defineSetter__", "__lookupGetter__", "__lookupSetter__"}

\* what vendorRegistry[vendorId] evaluates to: an own property, else a
\* property inherited from Object.prototype, else undefined
InheritedValue == "Object.prototype member"

NoTransformer == "undefined"

RegistryGet(id) ==
    IF id \in DOMAIN VendorRegistry THEN VendorRegistry[id]
    ELSE IF id \in ObjectPrototypeKeys THEN InheritedValue
    ELSE NoTransformer

\* the vendorId of a call that names none
NoVendorId == "<undefined>"

\* getDefaultVendor
GetDefaultVendor == "AGNE"

\* vendorId || getDefaultVendor()
VendorOrDefault(id) == IF id = NoVendorId \/ id = "" THEN GetDefaultVendor ELSE id

VendorNotFound(id) ==
    [name |-> "Error: Vendor not found", requested |-> id, known |-> RegistryKeys]

NotAFunction ==
    [name |-> "TypeError: not a function", requested |-> "", known |-> <<>>]

\* getVendorTransformer
GetVendorTransformer(id) ==
    LET transformer == RegistryGet(id)
    IN  IF transformer = NoTransformer THEN Thrown(VendorNotFound(id))
        ELSE ReturnedTransformer(transformer)

\* isVendorSupported: vendorId in vendorRegistry
IsVendorSupported(id) == id \in DOMAIN VendorRegistry \/ id \in ObjectPrototypeKeys

\* getAvailableVendors: one entry per registry key, its vendorId being
\* vendor.agneConfig?.vendorId || vendorId
AgneConfigVendorId == "AGNE"

GetAvailableVendors ==
    [i \in 1..Len(RegistryKeys) |->
        IF VendorRegistry[RegistryKeys[i]] = "agneTransformer"
        THEN AgneConfigVendorId ELSE RegistryKeys[i]]

\* a JavaScript boolean
BooleanValue(b) ==
    JsValue("boolean", IF b THEN <<"t", "r", "u", "e">> ELSE <<"f", "a", "l", "s", "e">>)

\* transformRow of transformer.js
TransformRow(r, mapping, origData, id) ==
    LET got == GetVendorTransformer(VendorOrDefault(id))
    IN  IF got.kind = "throw" THEN got
        ELSE IF got.transformer = "agneTransformer"
        THEN AgneTransformRow(r, mapping, origData)
        ELSE Thrown(NotAFunction)

\* getOutputColumns of transformer.js
GetOutputColumns(id) ==
    LET got == GetVendorTransformer(VendorOrDefault(id))
    IN  IF got.kind = "throw" THEN got
        ELSE IF got.transformer = "agneTransformer"
        THEN ReturnedColumns(AgneGetOutputColumns)
        ELSE Thrown(NotAFunction)

-----------------------------------------------------------------------------
(* The calls the model makes: each is an entry point with its arguments *)

\* longest multiplier text that is enumerated exhaustively
MaxMultLen == 2

MultAlphabet == {"0", "1", "2", ".", "-", "x"}

\* every string over alphabet A of length at most n
StringsUpTo(A, n) == UNION {[1..k -> A] : k \in 0..n}

\* a cell that the row does not have
Absent == Undefined

\* a row object from the cells that are present, in column order
MkRow(cells) == SelectSeq(cells, LAMBDA c : c[2] # Absent)

\* no helper argument
NoArg == [type |-> "none", text |-> <<>>]

\* transformUPC on a value of any type: a falsy value (null, undefined, '',
\* the numbers 0 and NaN) is returned as it is, anything else goes through
\* String(...)
Falsy(a) ==
    \/ a.type \in {"null", "undefined"}
    \/ a.type = "string" /\ a.text = E
    \/ a.type = "number" /\ a.text \in {<<"0">>, <<"N", "a", "N">>}

TransformUPCOf(a) == IF Falsy(a) THEN a ELSE JsValue("string", TransformUPC(a.text))

Call(o, r, m, od, v) ==
    [op |-> o, row |-> r, depositMapping |-> m, originalData |-> od, vendorId |-> v,
     arg |-> NoArg]

\* rows that vary the SALE group
SaleCalls ==
    { Call("agne.transformRow",
           MkRow(<< <<"Item", <<"A">> >>, <<"REG_RETAIL", reg>>,
                    <<"SALE_MULTIPLE", mult>>, <<"SALE_RETAIL", retail>>,
                    <<"SALE_COST", cost>>, <<"SALE_START_DATE", start>>,
                    <<"SALE_END_DATE", end>> >>),
           <<>>, <<>>, NoVendorId) :
        reg \in {Absent, <<"8">>},
        mult \in {Absent} \cup StringsUpTo(MultAlphabet, MaxMultLen),
        retail \in {Absent, E, <<"5">>},
        cost \in {Absent, E, <<"4">>},
        start \in {Absent, <<"2", "0", "2", "5", "1", "2", "0", "1">>},
        end \in {Absent, E} }

\* rows that vary the TPR group under both spellings
TprCalls ==
    { Call("agne.transformRow",
           MkRow(<< <<"REG_RETAIL", <<"8">> >>,
                    <<"TPR_MULTIPLE", mult>>, <<"TRP_MULTIPLE", mult2>>,
                    <<"TPR_RETAIL", retail>>, <<"TRP_RETAIL", retail2>>,
                    <<"TPR_COST", cost>>, <<"TRP_COST", cost2>>,
                    <<"TPR_START_DATE", start>>, <<"TRP_START_DATE", start2>>,
                    <<"TPR_END_DATE", end>>, <<"TRP_END_DATE", end2>> >>),
           <<>>, <<>>, NoVendorId) :
        mult \in {Absent, E, <<"1">>, <<"3">>, <<"x">>},
        mult2 \in {Absent, <<"0">>, <<"2">>},
        retail \in {Absent, E, <<"6">>},
        retail2 \in {Absent, <<"7">>},
        cost \in {Absent, <<"4">>},
        cost2 \in {Absent, <<"3">>},
        start \in {Absent, <<"1", "2", "/", "1", "/", "2", "0", "2", "5">>},
        start2 \in {Absent, <<"1", "/", "1", "2", "/", "2", "5">>},
        end \in {Absent, E},
        end2 \in {Absent, <<"2", "0", "2", "5", "-", "1", "2", "-", "3", "1">>} }

\* the fee identifier the mapping file gives each key
FeeOf ==
       (<<"0", ".", "3">> :> <<"D", "1">>)
    @@ (<<"0", ".", "3", "0">> :> <<"D", "2">>)
    @@ (<<"1", "2">> :> <<"D", "3">>)
    @@ (<<"A">> :> <<"D", "4">>)

\* every mapping over a subset of those keys
DepositMappings == { [k \in ks |-> FeeOf[k]] : ks \in SUBSET (DOMAIN FeeOf) }

\* rows that vary the deposit lookup
DepositCalls ==
    { Call("agne.transformRow",
           MkRow(<< <<"Item", item>>, <<"UPC", upc>>, <<"BOTTLE_DEPOSIT", dep>> >>),
           m, <<>>, NoVendorId) :
        item \in {Absent, <<"A">>, <<"B">>},
        upc \in {Absent, <<"0">>, <<"0", "1", "2">>, <<"7">>},
        dep \in {Absent, E, <<"0", ".", "3", "0">>, <<"0", ".", "3">>,
                 <<"$", ".", "3", "0">>, <<"x">>, <<"1", "2">>},
        m \in DepositMappings }

\* rows and original data that vary the department
DepartmentCalls ==
    { Call("agne.transformRow",
           MkRow(<< <<"Item", item>>, <<"Department", dept>> >>),
           <<>>, od, NoVendorId) :
        item \in {Absent, <<"A">>},
        dept \in {Absent, E, <<"S">>, <<"B">>},
        od \in { <<>>, (<<"A">> :> <<"S">>), (<<"A">> :> E), (<<"B">> :> <<"S">>) } }

\* rows with other column names and cases
OtherRows ==
    { MkRow(<< <<"item", <<"A">> >>, <<"upc", <<"0", "0", "7">> >>,
               <<"tax1", <<"y">> >>, <<"sale_multiple", <<"2">> >> >>),
      MkRow(<< <<"Upc", <<"1">> >>, <<"upc", <<"2">> >>, <<"TAX1", <<" ", "N">> >> >>),
      MkRow(<< <<"upc", <<"2">> >>, <<"UPC", <<" ", "0", "9">> >>,
               <<"TAX1", <<"x">> >>, <<"Status", <<"A">> >> >>),
      MkRow(<< <<"hasOwnProperty", <<"x">> >>, <<"Item", <<"A">> >> >>),
      MkRow(<< <<"Item", <<"A">> >>, <<"UPC", <<"7">> >>,
               <<"SALE_START_DATE", <<"1", "3", "/", "1", "/", "2", "0", "2", "5">> >>,
               <<"SALE_END_DATE", <<"1", "-", "1", "2", "-", "2", "5">> >> >>),
      MkRow(<< <<"Item #", <<"1", "2">> >>, <<"UPC", <<"8", ".", "5", "E", "+", "3">> >>,
               <<"Retail", <<"$", "2", ".", "3", "4", "9">> >> >>),
      MkRow(<< >>) }

OtherCalls ==
    { Call(o, r, <<>>, <<>>, NoVendorId) :
        o \in {"agne.transformRow", "pine.transformRow"}, r \in OtherRows }

\* rows of the Pine State Spirits sheet
PineCalls ==
    { Call("pine.transformRow",
           MkRow(<< <<"Item #", item>>, <<"UPC", upc>>, <<"Effective Start", start>>,
                    <<"Retail", retail>>, <<"Sale Price", sale>>,
                    <<"Description", desc>> >>),
           <<>>, <<>>, NoVendorId) :
        item \in {Absent, <<"1", "6", "5">>, <<"A", "1">>, <<" ">>},
        upc \in {Absent, E, <<"1", "2", "3", "4">>, <<"x">>,
                 <<"1", "2", "3", "4", "5", "6", "7", "8", "9", "0", "1", "2", "3">>},
        start \in {Absent, <<"1", "2", "/", "1", "/", "2", "5">>,
                   <<"1", "-", "1", "2", "-", "2", "0", "2", "5">>, <<"x">>},
        retail \in {Absent, <<"$", "1", ".", "5">>, <<"x">>, <<"2", ".", "3", "4", "9">>},
        sale \in {Absent, <<"3">>},
        desc \in {Absent, <<"G">>} }

\* a day or month number as the sheet may spell it: plain or zero-padded
Spellings(n) == {NatToDigits(n), PadStart(NatToDigits(n), 2)}

YYYY(y) == PadStart(NatToDigits(y), 4)

YY(y) == PadStart(NatToDigits(y % 100), 2)

Sep3(a, sep, b, c) == a \o <<sep>> \o b \o <<sep>> \o c

\* the spellings of one calendar date in each date format of the sheets
CompactTexts(d, m, y) == { YYYY(y) \o PadStart(NatToDigits(m), 2) \o PadStart(NatToDigits(d), 2) }

IsoTexts(d, m, y) ==
    { Sep3(YYYY(y), "-", mo, da) : mo \in Spellings(m), da \in Spellings(d) }

SlashMonthFirstTexts(d, m, y) ==
    { Sep3(mo, "/", da, YYYY(y)) : mo \in Spellings(m), da \in Spellings(d) }

SlashDayFirstTexts(d, m, y) ==
    { Sep3(da, "/", mo, YYYY(y)) : mo \in Spellings(m), da \in Spellings(d) }

DashDayFirstTexts(d, m, y) ==
    { Sep3(da, "-", mo, YYYY(y)) : mo \in Spellings(m), da \in Spellings(d) }

SlashDayFirstShortTexts(d, m, y) ==
    { Sep3(da, "/", mo, YY(y)) : mo \in Spellings(m), da \in Spellings(d) }

SlashMonthFirstShortTexts(d, m, y) ==
    { Sep3(mo, "/", da, YY(y)) : mo \in Spellings(m), da \in Spellings(d) }

DashDayFirstShortTexts(d, m, y) ==
    { Sep3(da, "-", mo, YY(y)) : mo \in Spellings(m), da \in Spellings(d) }

DateDays == {1, 12, 31}
DateMonths == {1, 12}
DateYears == {1950, 2025, 2049}

\* texts in a date format whose month or day is out of range
OutOfRangeDateTexts ==
    { <<"2", "0", "2", "5", "1", "3", "0", "1">>,
      <<"2", "0", "2", "5", "0", "1", "3", "2">>,
      <<"2", "0", "2", "5", "-", "1", "3", "-", "4", "0">>,
      <<"2", "0", "2", "5", "-", "1", "-", "0">>,
      <<"1", "3", "/", "1", "/", "2", "0", "2", "5">>,
      <<"1", "/", "3", "2", "/", "2", "0", "2", "5">>,
      <<"3", "2", "-", "1", "-", "2", "0", "2", "5">>,
      <<"1", "-", "1", "3", "-", "2", "0", "2", "5">>,
      <<"0", "/", "1", "/", "2", "5">>,
      <<"1", "3", "/", "3", "2", "/", "2", "5">>,
      <<"1", "-", "0", "-", "2", "5">>,
      <<"4", "0", "-", "1", "3", "-", "2", "5">> }

\* quoted and padded dates, and texts in no date format
OddDateTexts ==
    { <<"2", "0", "2", "5", "/", "1", "2", "/", "1">>,
      <<"'", "2", "0", "2", "5", "1", "2", "0", "1", "'">>,
      <<" ", "2", "0", "2", "5", "1", "2", "0", "1", " ">>,
      <<"D", "e", "c">> }

DateTexts ==
    OutOfRangeDateTexts \cup OddDateTexts \cup
    UNION { CompactTexts(d, m, y) \cup IsoTexts(d, m, y)
              \cup SlashMonthFirstTexts(d, m, y) \cup SlashDayFirstTexts(d, m, y)
              \cup DashDayFirstTexts(d, m, y) \cup SlashDayFirstShortTexts(d, m, y)
              \cup SlashMonthFirstShortTexts(d, m, y)
              \cup DashDayFirstShortTexts(d, m, y) :
            d \in DateDays, m \in DateMonths, y \in DateYears }

\* rows that vary one date cell of each vendor's sheet
DateCalls ==
    { Call("agne.transformRow", MkRow(<< <<"SALE_START_DATE", t>> >>),
           <<>>, <<>>, NoVendorId) : t \in DateTexts }
    \cup
    { Call("pine.transformRow", MkRow(<< <<"Effective Start", t>> >>),
           <<>>, <<>>, NoVendorId) : t \in DateTexts }

\* rows that vary one cell of the Pine State Spirits sheet
PineUpcTexts ==
    { <<" ">>, <<"-">>, <<"0">>, <<" ", "1", "2", " ">>, <<"1", "-", "2">>,
      <<"1", "2", "3", "4", "5", "6", "7", "8", "9", "0", "1", "2">>,
      <<"1", "2", "3", "4", "5", "6", "7", "8", "9", "0", "1", "2", "3", "4">>,
      <<" ", "1", "2", "3", "4", "5", "6", "7", "8", "9", "0", "1", "2", "3">>,
      <<"8", ".", "5", "E", "+", "3">> }

PineItemTexts ==
    { <<" ">>, <<"0">>, <<" ", "7", " ">>, <<" ", "A", "B", " ">>, <<"A", "-", "1">>,
      <<"1", "2", " ", "3">>, <<"0", "0", "1", "6", "5">>,
      <<"1", "2", "3", "4", "5", "6">>, <<"1", "2", "3", "4", "5", "6", "7">> }

PinePriceTexts ==
    { <<" ">>, <<"$">>, <<"-">>, <<".">>, <<"N", "/", "A">>, <<"0">>, <<"-", "0">>,
      <<"4", "1">>, <<"4", "5", ".", "1">>, <<"5", "4", ".", "9", "9">>,
      <<"$", "1", ",", "2", "3", "4", ".", "5">>, <<"1", "e", "5">>,
      <<"-", "1", ".", "5">>, <<"-", ".", "0", "0", "1">>, <<"1", ".", "2", ".", "3">>,
      <<"2", ".", "3", "4", "4", "9">>, <<"2", ".", "3", "4", "5", "1">>,
      <<"0", ".", "0", "0", "5">>, <<"0", ".", "0", "1", "5">>,
      <<"0", ".", "1", "2", "5">>, <<"1", ".", "0", "0", "5">>,
      <<"1", ".", "0", "4", "5">>, <<"2", ".", "6", "7", "5">>,
      <<"8", ".", "3", "4", "5">>, <<"9", ".", "9", "9", "5">>,
      <<"-", "2", ".", "6", "7", "5">>, <<"9", "9", ".", "9", "9", "6">> }

PinePriceColumns == {"Retail", "Sale Price", "Agency Cost", "Agency Sale Cost"}

PineCellCalls ==
    { Call("pine.transformRow", MkRow(<< <<"Item #", <<"9">> >>, <<"UPC", t>> >>),
           <<>>, <<>>, NoVendorId) : t \in PineUpcTexts }
    \cup
    { Call("pine.transformRow", MkRow(<< <<c, t>> >>), <<>>, <<>>, NoVendorId) :
        c \in {"Item #", "ItemNo"}, t \in PineItemTexts }
    \cup
    { Call("pine.transformRow", MkRow(<< <<"Item #", <<"9">> >>, <<c, t>> >>),
           <<>>, <<>>, NoVendorId) : c \in PinePriceColumns, t \in PinePriceTexts }

\* arguments of transformUPC called on its own
MaxUpcLen == 3

UpcArgs ==
    { JsValue("string", t) : t \in StringsUpTo({"0", "1", " "}, MaxUpcLen) }
    \cup { JsValue("null", <<>>), JsValue("undefined", <<>>) }
    \cup { JsValue("number", t) :
             t \in { <<"0">>, <<"N", "a", "N">>, <<"7">>, <<"1", "2", "3", "4", "5">>,
                     <<"0", ".", "5">>, <<"-", "1">> } }

HelperCalls ==
    { [Call("transformUPC", <<>>, <<>>, <<>>, NoVendorId) EXCEPT !.arg = a] :
        a \in UpcArgs }

\* rows that vary the TAX1 cell
Tax1Texts ==
    { E, <<" ">>, <<" ", " ">>, <<"Y">>, <<"y">>, <<"N">>, <<"n">>, <<" ", "y", " ">>,
      <<"n", " ">>, <<"X">>, <<"x">>, <<"Y", "N">>, <<"1">>, <<"0">>, <<"y", "e">> }

Tax1Calls ==
    { Call("agne.transformRow",
           MkRow(<< <<"Item", item>>, <<"TAX1", t>> >>), <<>>, <<>>, NoVendorId) :
        item \in {Absent, <<"A">>}, t \in Tax1Texts \cup {Absent} }

\* the columns each vendor's configuration lists as removed and the engine
\* never reads (FUTURE_* stands for every column of that prefix)
AgneDropped ==
    {"Status", "CaseUPC", "MANUFACTURER", "REG_MULTIPLE", "CASE_RETAIL", "TAX2",
     "TAX3", "CASE_DEPOSIT", "PRC_GRP", "FUTURE_RETAIL", "FUTURE_COST", "BRAND",
     "PBHN", "CLASS"}

PineDropped == {"Proof", "Retail Savings", "Agency Savings"}

\* texts a removed column may hold
DroppedTexts == {Absent, E, <<"Y">>, <<"9">>}

\* rows that carry removed columns beside mapped ones
DroppedCalls ==
    { Call("agne.transformRow",
           MkRow(<< <<"Status", a>>, <<"Item", <<"A">> >>, <<"TAX2", b>>,
                    <<"UPC", <<"0", "7">> >>, <<"CaseUPC", c>>,
                    <<"REG_MULTIPLE", <<"2">> >>, <<"CASE_RETAIL", <<"9">> >>,
                    <<"FUTURE_RETAIL", d>>, <<"TAX1", t>>, <<"CLASS", <<"Y">> >> >>),
           <<>>, <<>>, NoVendorId) :
        a \in DroppedTexts, b \in DroppedTexts, c \in {Absent, <<"1">>},
        d \in {Absent, <<"5">>}, t \in {Absent, <<"N">>} }
    \cup
    { Call("pine.transformRow",
           MkRow(<< <<"Proof", a>>, <<"Item #", <<"1">> >>, <<"Retail Savings", b>>,
                    <<"UPC", u>>, <<"Retail", <<"1", ".", "5">> >>,
                    <<"Agency Savings", c>> >>),
           <<>>, <<>>, NoVendorId) :
        a \in DroppedTexts, b \in DroppedTexts, c \in {Absent, <<"1">>},
        u \in {Absent, <<"1", "2">>} }

\* vendor identifiers a caller may pass
VendorIds ==
    {NoVendorId, "", "AGNE", "agne", "PINE_STATE_SPIRITS", "UNKNOWN",
     "constructor", "__proto__"}

\* calls through the registry and the dispatcher
VendorCalls ==
    { Call(o, r, <<>>, <<>>, v) :
        o \in {"transformRow", "getOutputColumns", "getVendorTransformer",
               "isVendorSupported", "getAvailableVendors"},
        r \in { MkRow(<< <<"Item", <<"A">> >>, <<"UPC", <<"0", "7">> >>,
                         <<"SALE_MULTIPLE", <<"2">> >>, <<"SALE_RETAIL", <<"5">> >> >>),
                MkRow(<< <<"Item #", <<"1">> >> >>) },
        v \in VendorIds }

Calls ==
    SaleCalls \cup TprCalls \cup DepositCalls \cup DepartmentCalls
        \cup OtherCalls \cup PineCalls \cup VendorCalls \cup DateCalls
        \cup PineCellCalls \cup HelperCalls \cup Tax1Calls \cup DroppedCalls

-----------------------------------------------------------------------------
(* One call of an entry point *)

\* no file is being processed
NoStream ==
    /\ fileType = "none" /\ transformFn = "none" /\ csvStream = <<>>
    /\ isFirstRow = TRUE /\ headers = <<>> /\ written = <<>>
    /\ processed = 0 /\ warnings = <<>> /\ promise = "none"

\* no collection of rows is being transformed
NoBatch == batch = <<>> /\ callPc = <<>> /\ heap = <<>> /\ returned = <<>>

\* what a response holds: the route and id of the request, the HTTP status,
\* and the fields of the body that the routes fill
Response(route, id, code, error, status, vendor, columns, list, sent) ==
    [route |-> route, id |-> id, code |-> code, error |-> error, status |-> status,
     vendorId |-> vendor, columns |-> columns, list |-> list, sent |-> sent]

NoResponse == Response("", 0, 0, "", "", "", <<>>, <<>>, FALSE)

\* no server is running
NoApi ==
    /\ dbConnected = FALSE /\ uploadStore = <<>> /\ transformStore = <<>>
    /\ jobs = <<>> /\ files = {} /\ response = NoResponse
    /\ uploaded = <<>> /\ deleted = {}

Init ==
    \E c \in Calls :
        /\ pc = "ready"
        /\ op = c.op
        /\ row = c.row
        /\ depositMapping = c.depositMapping
        /\ originalData = c.originalData
        /\ vendorId = c.vendorId
        /\ arg = c.arg
        /\ result = NoResult
        /\ NoStream
        /\ NoBatch
        /\ NoApi

Return(r) ==
    /\ pc' = "returned"
    /\ result' = r
    /\ UNCHANGED <<op, row, depositMapping, originalData, vendorId, arg>>
    /\ UNCHANGED <<streamVars, batchVars, apiVars>>

\* agne.transformRow(row, depositMapping, {originalData})
CallAgneTransformRow ==
    /\ pc = "ready" /\ op = "agne.transformRow"
    /\ Return(AgneTransformRow(row, depositMapping, originalData))

\* pineStateSpirits.transformRow(row, depositMapping, {originalData})
CallPineTransformRow ==
    /\ pc = "ready" /\ op = "pine.transformRow"
    /\ Return(PineTransformRow(row, depositMapping, originalData))

\* transformRow(row, depositMapping, {vendorId, originalData})
CallTransformRow ==
    /\ pc = "ready" /\ op = "transformRow"
    /\ Return(TransformRow(row, depositMapping, originalData, vendorId))

\* getOutputColumns(vendorId)
CallGetOutputColumns ==
    /\ pc = "ready" /\ op = "getOutputColumns"
    /\ Return(GetOutputColumns(vendorId))

\* getVendorTransformer(vendorId)
CallGetVendorTransformer ==
    /\ pc = "ready" /\ op = "getVendorTransformer"
    /\ Return(GetVendorTransformer(vendorId))

\* isVendorSupported(vendorId)
CallIsVendorSupported ==
    /\ pc = "ready" /\ op = "isVendorSupported"
    /\ Return(ReturnedValue(BooleanValue(IsVendorSupported(vendorId))))

\* getAvailableVendors()
CallGetAvailableVendors ==
    /\ pc = "ready" /\ op = "getAvailableVendors"
    /\ Return(ReturnedColumns(GetAvailableVendors))

\* transformUPC(upc)
CallTransformUPC ==
    /\ pc = "ready" /\ op = "transformUPC"
    /\ Return(ReturnedValue(TransformUPCOf(arg)))

Next ==
    \/ CallAgneTransformRow
    \/ CallPineTransformRow
    \/ CallTransformRow
    \/ CallGetOutputColumns
    \/ CallGetVendorTransformer
    \/ CallIsVendorSupported
    \/ CallGetAvailableVendors
    \/ CallTransformUPC

Spec == Init /\ [][Next]_vars

-----------------------------------------------------------------------------
(* Properties of the AGNE transformer *)

\* an AGNE transformRow call that returned {transformedRow, warnings}
AgneReturned ==
    /\ pc = "returned"
    /\ op \in {"agne.transformRow", "transformRow"}
    /\ result.kind = "ok"

\* the cell the transformer reads for a column name
In(name) == GetColumnValue(row, name)

\* the cell of a TPR column under either spelling
TprIn(tpr, trp) == Or(In(tpr), In(trp))

Out(col) == result.transformedRow[col]

\* empty or absent
Blank(v) == v = Undefined \/ v = E

\* an input cell as the string it is emitted as
Text(v) == IF v = Undefined THEN E ELSE v

SaleHasData ==
    \/ ~Blank(In("SALE_RETAIL")) \/ ~Blank(In("SALE_COST"))
    \/ ~Blank(In("SALE_START_DATE")) \/ ~Blank(In("SALE_END_DATE"))
    \/ GtZero(ParseNumeric(In("SALE_MULTIPLE")))

TprHasData ==
    \/ ~Blank(In("TPR_RETAIL")) \/ ~Blank(In("TRP_RETAIL"))
    \/ ~Blank(In("TPR_COST")) \/ ~Blank(In("TRP_COST"))
    \/ ~Blank(In("TPR_START_DATE")) \/ ~Blank(In("TRP_START_DATE"))
    \/ ~Blank(In("TPR_END_DATE")) \/ ~Blank(In("TRP_END_DATE"))
    \/ GtZero(ParseNumeric(In("TPR_MULTIPLE")))
    \/ GtZero(ParseNumeric(In("TRP_MULTIPLE")))

\* C1: has-data gating. A row whose SALE price, cost, start and end date are
\* all empty or absent and whose SALE_MULTIPLE is absent or not a number > 0
\* gets the empty string, never "0", in Special Price Method, Special Price,
\* Special Quantity and Special Group Price; likewise the #2 group for the
\* TPR_*/TRP_* cells.
C1_HasDataGating ==
    AgneReturned =>
        /\ ~SaleHasData =>
               /\ Out("Special Price Method") = E
               /\ Out("Special Price") = E
               /\ Out("Special Quantity") = E
               /\ Out("Special Group Price") = E
        /\ ~TprHasData =>
               /\ Out("Special Price Method #2") = E
               /\ Out("Special Price #2") = E
               /\ Out("Special Quantity #2") = E
               /\ Out("Special Group Price #2") = E

\* a row whose only SALE cell is a multiplier of "0" was transformed
C1_Witness ==
    /\ AgneReturned
    /\ ~SaleHasData
    /\ In("SALE_MULTIPLE") = <<"0">>
    /\ In("SALE_RETAIL") = E
    /\ Out("Special Price Method") = E

\* C2: multi-unit branch. When SALE_MULTIPLE parses to a number > 1, Special
\* Group Price is the input SALE_RETAIL, Special Price the input REG_RETAIL,
\* Special Price Method "2" and Special Quantity the SALE_MULTIPLE text; the
\* same for the #2 outputs with the TPR multiplier and retail (read under the
\* TPR_ spelling, or the TRP_ one when the TPR_ cell is empty or absent).
C2_MultiUnit ==
    AgneReturned =>
        /\ GtOne(ParseNumeric(In("SALE_MULTIPLE"))) =>
               /\ Out("Special Group Price") = Text(In("SALE_RETAIL"))
               /\ Out("Special Price") = Text(In("REG_RETAIL"))
               /\ Out("Special Price Method") = <<"2">>
               /\ Out("Special Quantity") = In("SALE_MULTIPLE")
        /\ GtOne(ParseNumeric(TprIn("TPR_MULTIPLE", "TRP_MULTIPLE"))) =>
               /\ Out("Special Group Price #2") = Text(TprIn("TPR_RETAIL", "TRP_RETAIL"))
               /\ Out("Special Price #2") = Text(In("REG_RETAIL"))
               /\ Out("Special Price Method #2") = <<"2">>
               /\ Out("Special Quantity #2") = TprIn("TPR_MULTIPLE", "TRP_MULTIPLE")

\* multiplier 2, special price 5, regular price 8
C2_Witness ==
    /\ AgneReturned
    /\ In("SALE_MULTIPLE") = <<"2">>
    /\ In("SALE_RETAIL") = <<"5">>
    /\ In("REG_RETAIL") = <<"8">>
    /\ Out("Special Group Price") = <<"5">>
    /\ Out("Special Price") = <<"8">>

\* the multiplier is absent or parses to a number <= 1
AtMostOne(mult) ==
    \/ mult = Undefined
    \/ ~ParseNumeric(mult).nan /\ ~GtOne(ParseNumeric(mult))

\* C3: single-unit branch. A row that has sale data and whose SALE_MULTIPLE
\* is absent or parses to a number <= 1 keeps SALE_RETAIL as Special Price,
\* has Special Price Method "0" and empty Special Quantity and Special Group
\* Price; the same for the #2 group.
C3_SingleUnit ==
    AgneReturned =>
        /\ SaleHasData /\ AtMostOne(In("SALE_MULTIPLE")) =>
               /\ Out("Special Price") = Text(In("SALE_RETAIL"))
               /\ Out("Special Price Method") = <<"0">>
               /\ Out("Special Quantity") = E
               /\ Out("Special Group Price") = E
        /\ TprHasData /\ AtMostOne(TprIn("TPR_MULTIPLE", "TRP_MULTIPLE")) =>
               /\ Out("Special Price #2") = Text(TprIn("TPR_RETAIL", "TRP_RETAIL"))
               /\ Out("Special Price Method #2") = <<"0">>
               /\ Out("Special Quantity #2") = E
               /\ Out("Special Group Price #2") = E

\* multiplier 1 with a special price
C3_Witness ==
    /\ AgneReturned
    /\ In("SALE_MULTIPLE") = <<"1">>
    /\ In("SALE_RETAIL") = <<"5">>
    /\ Out("Special Price") = <<"5">>
    /\ Out("Special Price Method") = <<"0">>

\* a transformRow call of either vendor returned {transformedRow, warnings}
RowReturned ==
    /\ pc = "returned"
    /\ op \in {"agne.transformRow", "pine.transformRow", "transformRow"}
    /\ result.kind = "ok"

\* the output columns of the vendor whose transformer ran
ColumnsOfCall ==
    IF op = "pine.transformRow" THEN PineGetOutputColumns ELSE AgneGetOutputColumns

\* C4: every column name of the vendor's getOutputColumns() is a key of the
\* transformedRow and holds a string, never undefined, whatever columns the
\* input row lacks.
C4_OutputColumnsPopulated ==
    RowReturned =>
        \A i \in 1..Len(ColumnsOfCall) :
            /\ ColumnsOfCall[i] \in DOMAIN result.transformedRow
            /\ result.transformedRow[ColumnsOfCall[i]] # Undefined

-----------------------------------------------------------------------------
(* The deposit lookup *)

DepositValue == In("BOTTLE_DEPOSIT")

\* the row's normalized UPC and its item identifier
NormalizedUPC == TransformUPC(In("UPC"))

ItemId == Or(In("Item"), E)

\* the UPC/item key: the normalized UPC, or the item when that is empty
DepositKey == IF Truthy(NormalizedUPC) THEN NormalizedUPC ELSE ItemId

Mapped(k) == Truthy(k) /\ Truthy(MapGet(depositMapping, k))

RawMatch == Mapped(DepositValue)

NumericMatch ==
    /\ Truthy(DepositValue)
    /\ ~ParseNumeric(DepositValue).nan
    /\ Mapped(NumToString(ParseNumeric(DepositValue)))

\* no lookup step finds an entry
NoLookupMatch ==
    /\ ~RawMatch /\ ~NumericMatch
    /\ ~Mapped(NormalizedUPC) /\ ~Mapped(ItemId)

DepositWarnings ==
    SelectSeq(result.warnings,
              LAMBDA w : w.kind = "No deposit mapping found for UPC/Item")

C6_FallbackOrder ==
    (/\ AgneReturned
     /\ ~RawMatch /\ ~NumericMatch
     /\ Truthy(NormalizedUPC) /\ ~Mapped(NormalizedUPC)
     /\ Mapped(ItemId))
    => Out("Fee ID") = MapGet(depositMapping, ItemId)

\* C7: a row's deposit value decides Fee ID by its raw text when that is
\* mapped; failing that by its numeric re-rendering when that is mapped; the
\* UPC/item key decides only when both fail.
C7_Precedence ==
    AgneReturned /\ Truthy(DepositValue) =>
        /\ RawMatch => Out("Fee ID") = MapGet(depositMapping, DepositValue)
        /\ ~RawMatch /\ NumericMatch =>
               Out("Fee ID") =
                   MapGet(depositMapping, NumToString(ParseNumeric(DepositValue)))
        /\ ~RawMatch /\ ~NumericMatch /\ Mapped(DepositKey) =>
               Out("Fee ID") = MapGet(depositMapping, DepositKey)

\* "$.30" is not a key, its numeric rendering "0.3" is, and so is the UPC
C7_Witness ==
    /\ AgneReturned
    /\ DepositValue = <<"$", ".", "3", "0">>
    /\ ~RawMatch /\ NumericMatch
    /\ Mapped(NormalizedUPC)
    /\ Out("Fee ID") = <<"D", "1">>

-----------------------------------------------------------------------------
(* The department *)

\* options.originalData[productCode]
OriginalDept == MapGet(originalData, ItemId)

DeptWarnings ==
    SelectSeq(result.warnings, LAMBDA w : w.kind = "Department ID changed")

\* C8: an original department (a non-empty one, found under the row's item
\* identifier) that differs from the incoming Department is the output, with
\* exactly one warning naming both values; otherwise the output is the
\* incoming value and there is no department warning.
C8_DepartmentPreserved ==
    AgneReturned =>
        IF Truthy(OriginalDept) /\ OriginalDept # In("Department")
        THEN /\ Out("Department ID") = OriginalDept
             /\ DeptWarnings =
                    <<Warning("Department ID changed", OriginalDept, In("Department"))>>
        ELSE /\ Out("Department ID") = Text(In("Department"))
             /\ DeptWarnings = <<>>

\* item A had department S and comes in with department B
C8_Witness ==
    /\ AgneReturned
    /\ ItemId = <<"A">>
    /\ OriginalDept = <<"S">>
    /\ In("Department") = <<"B">>
    /\ Out("Department ID") = <<"S">>

-----------------------------------------------------------------------------
(* Vendors and failures *)

\* C9: an explicitly given vendor id that is not registered makes
\* getVendorTransformer, transformRow and getOutputColumns fail with the error
\* that names the requested id and lists the known ids.
C9_UnknownVendorFails ==
    (/\ pc = "returned"
     /\ op \in {"getVendorTransformer", "transformRow", "getOutputColumns"}
     /\ vendorId \notin {NoVendorId, ""}
     /\ vendorId \notin DOMAIN VendorRegistry)
    => /\ result.kind = "throw"
       /\ result.error = VendorNotFound(vendorId)

\* C10: transformRow of a vendor transformer returns {transformedRow,
\* warnings} for every row and deposit mapping; it never throws.
C10_RowNeverThrows ==
    (/\ pc = "returned"
     /\ \/ op \in {"agne.transformRow", "pine.transformRow"}
        \/ op = "transformRow" /\ VendorOrDefault(vendorId) \in DOMAIN VendorRegistry)
    => result.kind = "ok"

-----------------------------------------------------------------------------
(* utils/fileProcessor.js: streamProcessFile *)

\* escapeCSVValue: '' for undefined, else the trimmed text, wrapped in double
\* quotes with its own quotes doubled when it holds , " \n \r or \t
NeedsQuoting(str) ==
    \E i \in 1..Len(str) : str[i] \in {",", "\"", "\n", "\r", "\t"}

RECURSIVE DoubleQuotes(_)
DoubleQuotes(str) ==
    IF str = E THEN E
    ELSE (IF Head(str) = "\"" THEN <<"\"", "\"">> ELSE <<Head(str)>>)
         \o DoubleQuotes(Tail(str))

EscapeCSVValue(value) ==
    LET Escape(str) ==
            IF NeedsQuoting(str) THEN <<"\"">> \o DoubleQuotes(str) \o <<"\"">>
            ELSE str
    IN  IF value = Undefined THEN E ELSE Escape(Trim(value))

\* the order in which agne.js transformRow first assigns each key of
\* transformedRow, which is the order Object.keys lists them in
AgneObjectKeys ==
    <<"Vendor ID", "Product Code", "UPC", "Description", "Department ID", "Price",
      "Pack", "Cost", "Tax ID", "Foodstamp Eligible", "WIC Eligible", "Fee ID",
      "Special Group Price", "Special Price", "Special Price Method",
      "Special Quantity", "Special Cost", "Start Date", "End Date",
      "Special Group Price #2", "Special Price #2", "Special Price Method #2",
      "Special Quantity #2", "Special Cost #2", "Start Date #2", "End Date #2",
      "Size">>

\* the same for the transformRow of pine-state-spirits.js
PineObjectKeys ==
    <<"Item #", "Description", "Size", "Unit", "UPC", "Effective Start",
      "Effective End", "Retail", "Special Pricing Method", "Sale Price",
      "Agency Cost", "Agency Sale Cost">>

\* the transform function handed to streamProcessFile: the Pine State Spirits
\* transformRow itself, or the closure of api.js over a vendor id
PineFn == "pineStateSpirits.transformRow"

ApplyTransformFn(fn, r, mapping) ==
    IF fn = PineFn THEN PineTransformRow(r, mapping, <<>>)
    ELSE TransformRow(r, mapping, <<>>, fn)

\* Object.keys(result.transformedRow)
ObjectKeys(fn, tr) ==
    SelectSeq(IF fn = PineFn THEN PineObjectKeys ELSE AgneObjectKeys,
              LAMBDA k : k \in DOMAIN tr)

\* Object.values(row).some(v => String(v || '').trim() !== '')
HasContent(r) == \E i \in 1..Len(r) : Trim(r[i][2]) # E

\* one output line: the cells that join(',') separates; a header cell is the
\* column name, which escapeCSVValue leaves as it is (no name of either
\* vendor has outer white space or a character that needs quoting)
HeaderLine(hs) == hs

DataLine(hs, tr) == [j \in 1..Len(hs) |-> EscapeCSVValue(MapGet(tr, hs[j]))]

\* `Row ${n}: ${w}`
RowWarnings(n, ws) == [j \in 1..Len(ws) |-> [row |-> n, warning |-> ws[j]]]

MaxRows == 2

StreamRows ==
    { MkRow(<< <<"Item", <<" ">> >>, <<"UPC", E>> >>),
      MkRow(<< <<"Item", <<"A">> >>, <<"UPC", <<"0", "1", "2">> >>,
               <<"SALE_RETAIL", <<"2">> >>, <<"SALE_MULTIPLE", <<"2">> >>,
               <<"REG_RETAIL", <<"3">> >> >>),
      MkRow(<< <<"Item #", <<"1", "6", "5">> >>, <<"UPC", <<"x">> >>,
               <<"Description", <<" ", "a", ",", "\"", "b">> >>,
               <<"TAX1", <<"x">> >> >>),
      MkRow(<< <<"hasOwnProperty", <<"x">> >>, <<"Item", <<"A">> >> >>) }

RECURSIVE RowsUpTo(_)
RowsUpTo(n) ==
    IF n = 0 THEN {<<>>}
    ELSE LET shorter == RowsUpTo(n - 1)
         IN  shorter \cup { Append(f, r) : f \in {g \in shorter : Len(g) = n - 1},
                                           r \in StreamRows }

InitStream ==
    /\ pc = "streaming" /\ op = "streamProcessFile"
    /\ row = <<>> /\ originalData = <<>> /\ vendorId = NoVendorId
    /\ arg = NoArg /\ result = NoResult
    /\ depositMapping \in {<<>>, [k \in {<<"1", "2">>} |-> FeeOf[k]]}
    /\ fileType \in {"csv", "excel", "unknown"}
    /\ transformFn \in {"AGNE", PineFn}
    /\ csvStream \in RowsUpTo(MaxRows)
    /\ isFirstRow = TRUE /\ headers = <<>> /\ written = <<>>
    /\ processed = 0 /\ warnings = <<>> /\ promise = "pending"
    /\ NoBatch
    /\ NoApi

StreamFrame == UNCHANGED <<callVars, batchVars, apiVars, fileType, transformFn>>

\* streamProcessFile on a file that is neither CSV nor Excel
StreamUnsupported ==
    /\ promise = "pending" /\ fileType = "unknown"
    /\ promise' = "rejected"
    /\ UNCHANGED <<csvStream, isFirstRow, headers, written, processed, warnings>>
    /\ StreamFrame

\* the 'data' handler of streamProcessCSV on the next parsed row
CsvData ==
    /\ promise = "pending" /\ fileType = "csv" /\ csvStream # <<>>
    /\ LET Write(res, hs) ==
               /\ headers' = hs
               /\ isFirstRow' = FALSE
               /\ written' = written
                      \o (IF isFirstRow THEN <<HeaderLine(hs)>> ELSE <<>>)
                      \o <<DataLine(hs, res.transformedRow)>>
               /\ warnings' = warnings \o RowWarnings(processed + 1, res.warnings)
               /\ processed' = processed + 1
               /\ promise' = promise
           Handle(r, res) ==
               IF ~HasContent(r)
               THEN UNCHANGED <<isFirstRow, headers, written, processed,
                                warnings, promise>>
               ELSE IF res.kind = "throw"
               THEN /\ promise' \in {"rejected", "uncaught"}
                    /\ UNCHANGED <<isFirstRow, headers, written, processed, warnings>>
               ELSE IF DOMAIN res.transformedRow = {}
               THEN UNCHANGED <<isFirstRow, headers, written, processed,
                                warnings, promise>>
               ELSE Write(res, IF isFirstRow
                               THEN ObjectKeys(transformFn, res.transformedRow)
                               ELSE headers)
       IN  Handle(Head(csvStream),
                  ApplyTransformFn(transformFn, Head(csvStream), depositMapping))
    /\ csvStream' = Tail(csvStream)
    /\ StreamFrame

\* the 'end' handler of streamProcessCSV
CsvEnd ==
    /\ promise = "pending" /\ fileType = "csv" /\ csvStream = <<>>
    /\ promise' = "resolved"
    /\ UNCHANGED <<csvStream, isFirstRow, headers, written, processed, warnings>>
    /\ StreamFrame

\* the 'error' handler of streamProcessCSV
CsvError ==
    /\ promise = "pending" /\ fileType = "csv"
    /\ promise' = "rejected"
    /\ UNCHANGED <<csvStream, isFirstRow, headers, written, processed, warnings>>
    /\ StreamFrame

RECURSIVE ExcelWarnings(_, _)
ExcelWarnings(results, i) ==
    IF i > Len(results) THEN <<>>
    ELSE RowWarnings(i, results[i].warnings) \o ExcelWarnings(results, i + 1)

\* streamProcessExcel: the rows are read, filtered, transformed and written
\* in one synchronous pass
ExcelProcess ==
    /\ promise = "pending" /\ fileType = "excel"
    /\ LET Write(results, transformedRows, hs) ==
               /\ headers' = hs
               /\ written' =
                      IF transformedRows = <<>> THEN <<>>
                      ELSE <<HeaderLine(hs)>>
                           \o [i \in 1..Len(transformedRows) |->
                                 DataLine(hs, transformedRows[i])]
               /\ warnings' = ExcelWarnings(results, 1)
               /\ processed' = Len(results)
               /\ promise' = "resolved"
           Kept(results, kept) ==
               Write(results, [i \in 1..Len(kept) |-> kept[i].transformedRow],
                     IF kept = <<>> THEN <<>>
                     ELSE ObjectKeys(transformFn, kept[1].transformedRow))
           Transformed(results) ==
               IF \E i \in 1..Len(results) : results[i].kind = "throw"
               THEN /\ promise' = "rejected"
                    /\ UNCHANGED <<headers, written, processed, warnings>>
               ELSE Kept(results,
                         SelectSeq(results,
                                   LAMBDA res : DOMAIN res.transformedRow # {}))
           Filtered(nonEmptyRows) ==
               Transformed([i \in 1..Len(nonEmptyRows) |->
                              ApplyTransformFn(transformFn, nonEmptyRows[i],
                                               depositMapping)])
       IN  Filtered(SelectSeq(csvStream, HasContent))
    /\ csvStream' = <<>>
    /\ UNCHANGED isFirstRow
    /\ StreamFrame

NextStream ==
    \/ StreamUnsupported
    \/ CsvData
    \/ CsvEnd
    \/ CsvError
    \/ ExcelProcess

SpecStream == InitStream /\ [][NextStream]_vars

\* the columns of the vendor behind a transform function
ColumnsOfFn(fn) ==
    IF fn = PineFn THEN PineGetOutputColumns ELSE GetOutputColumns(fn).columns

\* C11: for every vendor, the header line and every data line that
\* streamProcessFile writes list the columns in the order of that vendor's
\* getOutputColumns(): whenever a run writes, what it writes is the header
\* (before the first data line) made of exactly those columns, then one line
\* per transformed row holding the row's cells in that order.
C11_ColumnOrder ==
    [][ written' # written =>
          LET cols == ColumnsOfFn(transformFn)
              Lines(rs) ==
                  [i \in 1..Len(rs) |->
                     DataLine(cols, ApplyTransformFn(transformFn, rs[i],
                                                     depositMapping).transformedRow)]
          IN  written' = written
                  \o (IF written = <<>> THEN <<HeaderLine(cols)>> ELSE <<>>)
                  \o Lines(IF fileType = "csv" THEN <<Head(csvStream)>>
                           ELSE SelectSeq(csvStream, HasContent)) ]_vars

\* the same for the Pine State Spirits transform alone
C11_PineColumnOrder ==
    [][ (written' # written /\ transformFn = PineFn) =>
          LET Lines(rs) ==
                  [i \in 1..Len(rs) |->
                     DataLine(PineGetOutputColumns,
                              PineTransformRow(rs[i], depositMapping, <<>>).transformedRow)]
          IN  written' = written
                  \o (IF written = <<>> THEN <<HeaderLine(PineGetOutputColumns)>> ELSE <<>>)
                  \o Lines(IF fileType = "csv" THEN <<Head(csvStream)>>
                           ELSE SelectSeq(csvStream, HasContent)) ]_vars

\* a run has written the header and a data line of an AGNE file
C11_Witness ==
    /\ op = "streamProcessFile" /\ transformFn = "AGNE"
    /\ Len(written) >= 2
    /\ written[1] = AgneObjectKeys

-----------------------------------------------------------------------------
(* transformRow over a collection of rows, the calls made in any order *)

MaxBatch == 3

BatchRows ==
    { MkRow(<< <<"Item", <<"A">> >>, <<"UPC", <<"0", "1", "2">> >>,
               <<"TAX1", <<"x">> >>, <<"Department", <<"B">> >> >>),
      MkRow(<< <<"Item", <<"B">> >>, <<"UPC", <<"7">> >>,
               <<"SALE_START_DATE", <<"1", "3", "/", "1", "/", "2", "0", "2", "5">> >> >>),
      MkRow(<< <<"hasOwnProperty", <<"x">> >>, <<"Item", <<"A">> >> >>),
      MkRow(<< <<"Item", <<"A">> >>, <<"BOTTLE_DEPOSIT", <<"0", ".", "3">> >> >>) }

RECURSIVE BatchesUpTo(_)
BatchesUpTo(n) ==
    IF n = 0 THEN {<<>>}
    ELSE LET shorter == BatchesUpTo(n - 1)
         IN  shorter \cup { Append(f, r) : f \in {g \in shorter : Len(g) = n - 1},
                                           r \in BatchRows }

\* an object literal before anything is stored in it
EmptyObjects == [transformedRow |-> <<>>, warnings |-> <<>>]

\* one array and one object for every call
AllocateShared(i) == 1

\* const warnings = []; const transformedRow = {}: every call gets objects of
\* its own, named here by the position of the call
AllocateCallObjects(i) == i

InitBatch ==
    /\ pc = "batch" /\ op = "transformRow"
    /\ row = <<>> /\ arg = NoArg /\ result = NoResult
    /\ depositMapping \in {<<>>, [k \in {<<"1", "2">>, <<"0", ".", "3">>} |-> FeeOf[k]]}
    /\ originalData \in {<<>>, (<<"A">> :> <<"S">>)}
    /\ vendorId \in {NoVendorId, "AGNE"}
    /\ batch \in BatchesUpTo(MaxBatch)
    /\ callPc = [i \in 1..Len(batch) |-> "idle"]
    /\ heap = [i \in 1..Len(batch) |-> EmptyObjects]
    /\ returned = [i \in 1..Len(batch) |-> [kind |-> "none", error |-> NoError, ref |-> 0]]
    /\ NoStream
    /\ NoApi

\* one synchronous transformRow call on row i: it allocates its objects,
\* stores the columns and pushes the warnings, and returns the two objects
TransformCall(i) ==
    /\ callPc[i] = "idle"
    /\ LET Body(a, res) ==
               /\ heap' = IF res.kind = "throw" THEN heap
                          ELSE [heap EXCEPT ![a] =
                                  [transformedRow |-> res.transformedRow
                                                      @@ heap[a].transformedRow,
                                   warnings |-> heap[a].warnings \o res.warnings]]
               /\ returned' = [returned EXCEPT ![i] =
                                  [kind |-> res.kind, error |-> res.error, ref |-> a]]
       IN  Body(AllocateCallObjects(i),
                TransformRow(batch[i], depositMapping, originalData, vendorId))
    /\ callPc' = [callPc EXCEPT ![i] = "returned"]
    /\ UNCHANGED <<callVars, streamVars, apiVars, batch>>

NextBatch == \E i \in 1..Len(batch) : TransformCall(i)

SpecBatch == InitBatch /\ [][NextBatch]_vars

\* what the caller holds for call i: the objects the call returned, as they
\* are now
ResultOf(i) ==
    IF returned[i].kind = "throw" THEN Thrown(returned[i].error)
    ELSE Returned(heap[returned[i].ref].transformedRow,
                  heap[returned[i].ref].warnings)

-----------------------------------------------------------------------------
(* Dates *)

\* an AGNE row has been transformed whose SALE_START_DATE cell has text
AgneDateReturned ==
    /\ pc = "returned" /\ op = "agne.transformRow" /\ result.kind = "ok"
    /\ Truthy(In("SALE_START_DATE"))

\* a Pine State Spirits row has been transformed whose Effective Start cell
\* has text
PineDateReturned ==
    /\ pc = "returned" /\ op = "pine.transformRow" /\ result.kind = "ok"
    /\ Truthy(In("Effective Start"))

DateWarnings ==
    SelectSeq(result.warnings,
              LAMBDA w : w.kind \in {"Invalid date", "Could not parse date"})

\* the five spellings of 1 December 2025 that the specification lists
FiveSpellings ==
    { <<"2", "0", "2", "5", "1", "2", "0", "1">>,
      <<"2", "0", "2", "5", "-", "1", "2", "-", "1">>,
      <<"1", "2", "/", "1", "/", "2", "0", "2", "5">>,
      <<"1", "-", "1", "2", "-", "2", "0", "2", "5">>,
      <<"1", "/", "1", "2", "/", "2", "5">> }

\* the spellings of a date in the formats normalizeDate accepts, each read
\* as the format is named
AgneAcceptedTexts(d, m, y) ==
    CompactTexts(d, m, y) \cup IsoTexts(d, m, y)
        \cup SlashMonthFirstTexts(d, m, y) \cup DashDayFirstTexts(d, m, y)
        \cup SlashDayFirstShortTexts(d, m, y) \cup DashDayFirstShortTexts(d, m, y)

Compact(d, m, y) ==
    YYYY(y) \o PadStart(NatToDigits(m), 2) \o PadStart(NatToDigits(d), 2)

C14_PineDateRoundTrip ==
    (PineDateReturned /\ In("Effective Start") \in FiveSpellings) =>
        Out("Effective Start") = <<"0", "1", "-", "1", "2", "-", "2", "0", "2", "5">>

\* the month and the day of an emitted date
EmittedMonth ==
    IF op = "pine.transformRow"
    THEN DigitsToNat(SubSeq(Out("Effective Start"), 4, 5))
    ELSE DigitsToNat(SubSeq(Out("Start Date"), 5, 6))

EmittedDay ==
    IF op = "pine.transformRow"
    THEN DigitsToNat(SubSeq(Out("Effective Start"), 1, 2))
    ELSE DigitsToNat(SubSeq(Out("Start Date"), 7, 8))

EmittedDate ==
    IF op = "pine.transformRow" THEN Out("Effective Start") ELSE Out("Start Date")

DateInput ==
    IF op = "pine.transformRow" THEN In("Effective Start") ELSE In("SALE_START_DATE")

\* C15: for either vendor, a date input in an accepted format whose month is
\* outside 1..12 or whose day is outside 1..31 gives the empty string and a
\* warning, so every non-empty emitted date has its month in 1..12 and its
\* day in 1..31.
C15_DateRangeValidated ==
    (AgneDateReturned \/ PineDateReturned) =>
        /\ DateInput \in OutOfRangeDateTexts =>
              EmittedDate = E /\ DateWarnings # <<>>
        /\ EmittedDate # E =>
              EmittedMonth \in 1..12 /\ EmittedDay \in 1..31

\* the same for the AGNE transformer alone
C15_AgneDateRangeValidated ==
    AgneDateReturned =>
        /\ DateInput \in OutOfRangeDateTexts =>
              EmittedDate = E /\ DateWarnings # <<>>
        /\ EmittedDate # E =>
              EmittedMonth \in 1..12 /\ EmittedDay \in 1..31

\* 19YY from 50 on, 20YY below
Century(y) == IF (y % 100) < 50 THEN 2000 + (y % 100) ELSE 1900 + (y % 100)

DayMonthYear(d, m, y) ==
    Sep3(PadStart(NatToDigits(d), 2), "-", PadStart(NatToDigits(m), 2), YYYY(y))

-----------------------------------------------------------------------------
(* Pine State Spirits cells *)

PineReturned ==
    pc = "returned" /\ op = "pine.transformRow" /\ result.kind = "ok"

\* the UPC cell under the first column name that has a value, '' when none
UpcCell ==
    Or(Or(Or(Or(Or(Or(Or(Or(Or(In("UPC"), In("UPC Code")), In("UPC#")), In("Code")),
       In("Barcode")), In("Bar Code")), In("EAN")), In("GTIN")), In("Upc")), E)

UpcWarnings ==
    SelectSeq(result.warnings,
              LAMBDA w : w.kind = "Could not normalize UPC for item")

HasDigit(t) == \E i \in 1..Len(t) : t[i] \in Digits

\* the four cases of the UPC rule for the text u of the cell
UpcRule(u) ==
    /\ (u # E /\ AllDigits(u) /\ Len(u) < 13) =>
          /\ Len(Out("UPC")) = 13
          /\ SubSeq(Out("UPC"), 14 - Len(u), 13) = u
          /\ \A i \in 1..(13 - Len(u)) : Out("UPC")[i] = "0"
          /\ UpcWarnings = <<>>
    /\ (AllDigits(u) /\ Len(u) >= 13) => Out("UPC") = u /\ UpcWarnings = <<>>
    /\ (u # E /\ ~HasDigit(u)) => Out("UPC") = E /\ Len(UpcWarnings) = 1
    /\ u = E => Out("UPC") = E /\ UpcWarnings = <<>>

ItemCell ==
    Or(Or(Or(Or(Or(In("Item #"), In("Item")), In("ItemNumber")), In("Item No")),
       In("ItemNo")), E)

\* the three cases of the item rule for the text i of the identifier
ItemRule(i) ==
    /\ (i # E /\ AllDigits(i) /\ Len(i) < 6) =>
          /\ Len(Out("Item #")) = 6
          /\ SubSeq(Out("Item #"), 7 - Len(i), 6) = i
          /\ \A k \in 1..(6 - Len(i)) : Out("Item #")[k] = "0"
    /\ (AllDigits(i) /\ Len(i) >= 6) => Out("Item #") = i
    /\ (i # E /\ ~AllDigits(i)) => Out("Item #") = i
    /\ i = E => Out("Item #") = E

PriceCell(c) ==
    CASE c = "Retail" -> Or(In("Retail"), In("Retail Price"))
      [] c = "Sale Price" -> Or(Or(In("Sale Price"), In("SalePrice")), In("Special Price"))
      [] c = "Agency Cost" -> Or(Or(In("Agency Cost"), In("AgencyCost")), In("Cost"))
      [] c = "Agency Sale Cost" ->
            Or(Or(In("Agency Sale Cost"), In("AgencySaleCost")), In("Sale Cost"))

PriceWarningKind(c) ==
    CASE c = "Retail" -> "Invalid retail price for item"
      [] c = "Sale Price" -> "Invalid sale price for item"
      [] c = "Agency Cost" -> "Invalid agency cost for item"
      [] c = "Agency Sale Cost" -> "Invalid agency sale cost for item"

PriceWarnings(c) ==
    SelectSeq(result.warnings, LAMBDA w : w.kind = PriceWarningKind(c))

Unsigned(t) == IF t # E /\ Head(t) = "-" THEN Tail(t) ELSE t

\* digits, a point, two digits
TwoDecimals(t) ==
    LET Shape(u) ==
            /\ Len(u) >= 4
            /\ u[Len(u) - 2] = "."
            /\ AllDigits(SubSeq(u, 1, Len(u) - 3))
            /\ AllDigits(SubSeq(u, Len(u) - 1, Len(u)))
    IN  Shape(Unsigned(t))

\* the emitted text is within half a cent of the number (of at most four
\* decimals), and carries its sign unless it is zero
WithinHalfCent(t, num) ==
    LET Near(cents, value) ==
            /\ 100 * cents - value \in -50..50
            /\ cents > 0 => ((t[1] = "-") <=> num.neg)
            /\ t[1] = "-" => num.neg
    IN  Len(num.fp) <= 4 =>
            Near(DigitsToNat(SelectSeq(t, LAMBDA ch : ch \in Digits)),
                 DigitsToNat(num.ip \o SubSeq(num.fp \o <<"0", "0", "0", "0">>, 1, 4)))

PriceRule(c, raw, num) ==
    /\ ~Truthy(raw) => Out(c) = E /\ PriceWarnings(c) = <<>>
    /\ (Truthy(raw) /\ num.nan) => Out(c) = E /\ Len(PriceWarnings(c)) = 1
    /\ (Truthy(raw) /\ ~num.nan) =>
          /\ PriceWarnings(c) = <<>>
          /\ TwoDecimals(Out(c))
          /\ WithinHalfCent(Out(c), num)

\* C19: each Pine State Spirits monetary field that is emitted non-empty is
\* the numeric value of its input rounded to exactly two decimals (digits,
\* a point, two digits, within half a cent of the value); the field is
\* empty with one warning exactly when the input is non-empty and has no
\* numeric value, and empty with no warning when the input is empty or
\* absent.
C19_MoneyTwoDecimals ==
    PineReturned =>
        /\ \A c \in PinePriceColumns :
              PriceRule(c, PriceCell(c), ParseNumeric(PriceCell(c)))
        /\ PriceCell("Retail") = <<"4", "5", ".", "1">> =>
              Out("Retail") = <<"4", "5", ".", "1", "0">>
        /\ PriceCell("Agency Sale Cost") = <<"4", "1">> =>
              Out("Agency Sale Cost") = <<"4", "1", ".", "0", "0">>

\* 99.996 has been emitted as 100.00
C19_Witness ==
    /\ PineReturned
    /\ PriceCell("Sale Price") = <<"9", "9", ".", "9", "9", "6">>
    /\ Out("Sale Price") = <<"1", "0", "0", ".", "0", "0">>

-----------------------------------------------------------------------------
(* transformUPC *)

UpcReturned == pc = "returned" /\ op = "transformUPC" /\ result.kind = "ok"

DropLeadingZero(t) == IF t # E /\ Head(t) = "0" THEN Tail(t) ELSE t

-----------------------------------------------------------------------------
(* TAX1 *)

Tax1Warnings ==
    SelectSeq(result.warnings, LAMBDA w : w.kind = "TAX1 has unexpected value")

\* the four cases of the flag rule for the cell t and its trimmed,
\* upper-cased text u
Tax1Rule(t, u) ==
    /\ u = <<"Y">> => Out("Tax ID") = <<"1">> /\ Tax1Warnings = <<>>
    /\ u = <<"N">> => Out("Tax ID") = E /\ Tax1Warnings = <<>>
    /\ u = E => Out("Tax ID") = E /\ Tax1Warnings = <<>>
    /\ u \notin {<<"Y">>, <<"N">>, E} =>
          Out("Tax ID") = t /\ Len(Tax1Warnings) = 1

\* C21: the TAX1 flag mapping is total: after trimming and upper-casing,
\* 'Y' gives '1' and 'N' gives '' with no warning, a cell that is absent
\* or empty after trimming gives '' with no warning, and every other cell
\* gives the original value with one 'unexpected value' warning.
C21_Tax1Total ==
    (pc = "returned" /\ op = "agne.transformRow" /\ result.kind = "ok") =>
        Tax1Rule(In("TAX1"), ToUpperCase(Trim(Text(In("TAX1")))))

\* the same, a cell of white space only left aside
C21_Tax1TotalNotBlank ==
    (/\ pc = "returned" /\ op = "agne.transformRow" /\ result.kind = "ok"
     /\ ~(Truthy(In("TAX1")) /\ Trim(In("TAX1")) = E)) =>
        Tax1Rule(In("TAX1"), ToUpperCase(Trim(Text(In("TAX1")))))

-----------------------------------------------------------------------------
(* TPR / TRP *)

TrpName(k) ==
    CASE k = "TPR_MULTIPLE" -> "TRP_MULTIPLE"
      [] k = "TPR_RETAIL" -> "TRP_RETAIL"
      [] k = "TPR_COST" -> "TRP_COST"
      [] k = "TPR_START_DATE" -> "TRP_START_DATE"
      [] k = "TPR_END_DATE" -> "TRP_END_DATE"
      [] OTHER -> k

\* the row with every TPR_* column renamed to its TRP_* spelling
RenamedToTrp(r) == [i \in 1..Len(r) |-> <<TrpName(r[i][1]), r[i][2]>>]

\* the row has a TPR_* column, and none whose TRP_* spelling it has too
Renamable(r) ==
    /\ \E i \in 1..Len(r) : TrpName(r[i][1]) # r[i][1]
    /\ \A i \in 1..Len(r) : TrpName(r[i][1]) # r[i][1] => ~HasOwn(r, TrpName(r[i][1]))

\* C22: for every AGNE row, renaming each TPR_* input column to its TRP_*
\* spelling gives exactly the same transformedRow and warnings.
C22_TrpAlias ==
    (pc = "returned" /\ op = "agne.transformRow" /\ Renamable(row)) =>
        AgneTransformRow(RenamedToTrp(row), depositMapping, originalData) = result

\* a row with a multi-unit TPR group under the TPR_* names only
C22_Witness ==
    /\ pc = "returned" /\ op = "agne.transformRow" /\ result.kind = "ok"
    /\ Renamable(row)
    /\ In("TPR_MULTIPLE") = <<"3">> /\ In("TPR_COST") = <<"4">>
    /\ Truthy(In("TPR_START_DATE"))
    /\ Out("Special Price Method #2") = <<"2">>
    /\ Out("Special Cost #2") = <<"4">>

-----------------------------------------------------------------------------
(* Removed columns *)

\* the removed columns of the vendor whose transformer ran
DroppedOf(o) == IF o = "agne.transformRow" THEN AgneDropped ELSE PineDropped

\* the row with every removed column's cell holding v instead
WithDropped(o, r, v) ==
    [i \in 1..Len(r) |-> IF r[i][1] \in DroppedOf(o) THEN <<r[i][1], v>> ELSE r[i]]

\* the row without its removed columns
WithoutDropped(o, r) == SelectSeq(r, LAMBDA c : c[1] \notin DroppedOf(o))

\* the transformer the call ran, applied to another row
SameTransform(o, r) ==
    IF o = "agne.transformRow" THEN AgneTransformRow(r, depositMapping, originalData)
    ELSE PineTransformRow(r, depositMapping, originalData)

RowCall == pc = "returned" /\ op \in {"agne.transformRow", "pine.transformRow"}

\* C23: no output key is named after a removed input column, and rows that
\* differ only in the values of removed columns give identical transformedRow
\* and warnings.
C23_DroppedColumns ==
    RowCall =>
        /\ result.kind = "ok" =>
               DOMAIN result.transformedRow \cap DroppedOf(op) = {}
        /\ \A v \in {E, <<"Z">>, <<"1">>, <<"Y">>} :
               SameTransform(op, WithDropped(op, row, v)) = result
        /\ SameTransform(op, WithoutDropped(op, row)) = result

\* a row with filled removed columns and mapped columns was transformed
C23_Witness ==
    /\ RowCall /\ result.kind = "ok"
    /\ \/ /\ op = "agne.transformRow"
          /\ In("TAX2") = <<"Y">> /\ In("Status") = <<"9">> /\ ~HasOwn(row, "TAX1")
          /\ Out("Tax ID") = E
       \/ /\ op = "pine.transformRow"
          /\ In("Proof") = <<"9">> /\ In("Retail Savings") = <<"Y">>
          /\ ~HasOwn(row, "UPC")

-----------------------------------------------------------------------------
(* The registered vendors *)

Listed(v, list) == \E i \in 1..Len(list) : list[i] = v

\* the two vendors the system is to offer
BothVendors == {"AGNE", "PINE_STATE_SPIRITS"}

\* C24: both vendors are registered: getAvailableVendors() lists AGNE and
\* PINE_STATE_SPIRITS, isVendorSupported is true for both, and
\* getVendorTransformer returns a transformer for each.
C24_BothVendorsRegistered ==
    /\ (pc = "returned" /\ op = "getAvailableVendors") =>
           \A v \in BothVendors : Listed(v, result.columns)
    /\ (pc = "returned" /\ op = "isVendorSupported" /\ vendorId \in BothVendors) =>
           result.value = BooleanValue(TRUE)
    /\ (pc = "returned" /\ op = "getVendorTransformer" /\ vendorId \in BothVendors) =>
           result.kind = "ok" /\ result.transformer # ""

\* the same of AGNE alone
C24_AgneRegistered ==
    /\ (pc = "returned" /\ op = "getAvailableVendors") => Listed("AGNE", result.columns)
    /\ (pc = "returned" /\ op = "isVendorSupported" /\ vendorId = "AGNE") =>
           result.value = BooleanValue(TRUE)
    /\ (pc = "returned" /\ op = "getVendorTransformer" /\ vendorId = "AGNE") =>
           result.kind = "ok" /\ result.transformer = "agneTransformer"

-----------------------------------------------------------------------------
(* Consistency of a special-pricing group *)

GroupConsistent(method, quantity, groupPrice, multipleRaw) ==
    /\ method \in {E, <<"0">>, <<"2">>}
    /\ quantity # E => method = <<"2">>
    /\ groupPrice # E => method = <<"2">>
    /\ method = <<"2">> <=> GtOne(ParseNumeric(multipleRaw))

\* C27: in every AGNE output row and for each of the two groups, the method
\* flag is one of '', '0', '2'; the quantity is non-empty only if the method
\* is '2'; the group price is non-empty only if the method is '2'; and the
\* method is '2' exactly when the group's multiplier parses to a number > 1.
C27_GroupConsistency ==
    AgneReturned =>
        /\ GroupConsistent(Out("Special Price Method"), Out("Special Quantity"),
                           Out("Special Group Price"), In("SALE_MULTIPLE"))
        /\ GroupConsistent(Out("Special Price Method #2"), Out("Special Quantity #2"),
                           Out("Special Group Price #2"),
                           TprIn("TPR_MULTIPLE", "TRP_MULTIPLE"))

\* a single-unit SALE group beside a multi-unit TPR group, and a row whose
\* multiplier is 1 with a special price
C27_Witness ==
    /\ AgneReturned
    /\ \/ /\ Out("Special Price Method #2") = <<"2">>
          /\ Out("Special Group Price #2") = <<"6">>
          /\ Out("Special Quantity #2") = <<"3">>
          /\ Out("Special Price Method") = E
       \/ /\ In("SALE_MULTIPLE") = <<"1">> /\ In("SALE_RETAIL") = <<"5">>
          /\ Out("Special Price Method") = <<"0">>
          /\ Out("Special Quantity") = E /\ Out("Special Group Price") = E

-----------------------------------------------------------------------------
(* Slash dates and the width of the year *)

\* the slash-separated spellings with a 4-digit year among the inputs
SlashLongTexts ==
    UNION { SlashMonthFirstTexts(d, m, y) \cup SlashDayFirstTexts(d, m, y) :
            d \in DateDays, m \in DateMonths, y \in DateYears }

\* the same digits with the year written in two digits
ShortYear(t) == SubSeq(t, 1, Len(t) - 4) \o SubSeq(t, Len(t) - 1, Len(t))

DateColumn == IF op = "pine.transformRow" THEN "Effective Start" ELSE "SALE_START_DATE"

DateOutColumn == IF op = "pine.transformRow" THEN "Effective Start" ELSE "Start Date"

\* the row with its date cell holding t instead
WithDate(r, t) ==
    [i \in 1..Len(r) |-> IF r[i][1] = DateColumn THEN <<r[i][1], t>> ELSE r[i]]

\* the date the transformer that ran emits for the row whose date cell is t
DateOf(t) == SameTransform(op, WithDate(row, t)).transformedRow[DateOutColumn]

\* C28: for each vendor's date parser, a slash-separated date with a 4-digit
\* year and the same day and month digits with the corresponding 2-digit
\* year are read in the same field order and yield the same output date.
C28_YearWidthIndependent ==
    ((AgneDateReturned \/ PineDateReturned) /\ DateInput \in SlashLongTexts) =>
        DateOf(ShortYear(DateInput)) = EmittedDate

\* the same of the dates whose two leading fields hold the same number
C28_EqualFields ==
    ((AgneDateReturned \/ PineDateReturned) /\ DateInput \in SlashLongTexts) =>
        \A n \in DateDays \cap DateMonths, y \in DateYears :
            DateInput \in SlashMonthFirstTexts(n, n, y) =>
                DateOf(ShortYear(DateInput)) = EmittedDate

-----------------------------------------------------------------------------
(* routes/api.js: uploads, transformations and their background jobs *)

MaxUploads == 1
MaxTransforms == 2

\* the paths that uploadSchema and transformSchema declare
UploadSchemaPaths ==
    {"uploadId", "filename", "originalPath", "fileType", "fileSize", "rowCount",
     "columns", "preview", "status", "createdAt"}

TransformSchemaPaths ==
    {"transformId", "uploadId", "depositMapId", "outputPath", "outputFormat",
     "rowsProcessed", "warnings", "status", "error", "createdAt", "completedAt"}

\* new Model(obj) under a strict schema: the document takes the fields of obj
\* that are paths of the schema; doc.toObject() gives the same fields
NewDocument(paths, obj) == [k \in (DOMAIN obj) \cap paths |-> obj[k]]

\* record.vendorId, undefined when the record has no such field
VendorIdOf(doc) == IF "vendorId" \in DOMAIN doc THEN doc["vendorId"] ELSE NoVendorId

\* the index of the first record of a collection with the id, 0 when none
FindIndex(coll, idField, id) ==
    IF \E i \in 1..Len(coll) : coll[i][idField] = id
    THEN CHOOSE i \in 1..Len(coll) :
             /\ coll[i][idField] = id
             /\ \A j \in 1..(i - 1) : coll[j][idField] # id
    ELSE 0

\* memoryStore.save: merge into the record of the same id, else push
MemoryStoreSave(coll, idField, data) ==
    IF FindIndex(coll, idField, data[idField]) > 0
    THEN [coll EXCEPT ![FindIndex(coll, idField, data[idField])] = data @@ @]
    ELSE Append(coll, data)

\* document.save() of Mongoose: a new document is inserted, an existing one
\* updated; when the collection no longer has it the update matches nothing
\* (save() rejects with DocumentNotFoundError) and nothing is stored
DocumentSave(coll, idField, doc, isNew) ==
    IF isNew THEN Append(coll, doc)
    ELSE IF FindIndex(coll, idField, doc[idField]) > 0
    THEN [coll EXCEPT ![FindIndex(coll, idField, doc[idField])] = doc @@ @]
    ELSE coll

\* if (isDbConnected()) await record.save(); else memoryStore.save(name, record)
SaveRecord(coll, idField, doc, isNew) ==
    IF dbConnected THEN DocumentSave(coll, idField, doc, isNew)
    ELSE MemoryStoreSave(coll, idField, doc)

\* deleteOne of either store
DeleteOne(coll, idField, id) ==
    IF FindIndex(coll, idField, id) = 0 THEN coll
    ELSE [i \in 1..(Len(coll) - 1) |->
            IF i < FindIndex(coll, idField, id) THEN coll[i] ELSE coll[i + 1]]

\* the files a client uploads: the type of the file name and the rows in it
GoodRow ==
    MkRow(<< <<"Item", <<"A">> >>, <<"UPC", <<"0", "7">> >>, <<"TAX1", <<"Y">> >> >>)

ThrowingRow == MkRow(<< <<"hasOwnProperty", <<"x">> >>, <<"Item", <<"A">> >> >>)

ApiFiles ==
    { [fileType |-> "csv", rows |-> <<GoodRow>>],
      [fileType |-> "csv", rows |-> <<GoodRow, ThrowingRow>>],
      [fileType |-> "excel", rows |-> <<GoodRow>>],
      [fileType |-> "excel", rows |-> <<ThrowingRow>>] }

\* the vendor ids a client sends with an upload
ApiVendorIds == {NoVendorId, "AGNE", "PINE_STATE_SPIRITS"}

InitApi ==
    /\ pc = "serving" /\ op = "api"
    /\ row = <<>> /\ depositMapping = <<>> /\ originalData = <<>>
    /\ vendorId = NoVendorId /\ arg = NoArg /\ result = NoResult
    /\ NoStream /\ NoBatch
    /\ dbConnected \in BOOLEAN
    /\ uploadStore = <<>> /\ transformStore = <<>> /\ jobs = <<>> /\ files = {}
    /\ response = NoResponse /\ uploaded = <<>> /\ deleted = {}

ApiFrame == UNCHANGED <<callVars, streamVars, batchVars, dbConnected>>

\* POST /upload-file
UploadFile ==
    /\ pc = "serving" /\ Len(uploadStore) < MaxUploads
    /\ \E f \in ApiFiles, v \in ApiVendorIds, hasFile \in BOOLEAN :
         LET Created(uploadId, vendor) ==
                 /\ uploadStore' =
                        SaveRecord(uploadStore, "uploadId",
                                   NewDocument(UploadSchemaPaths,
                                               [uploadId |-> uploadId,
                                                originalPath |-> f,
                                                fileType |-> f.fileType,
                                                vendorId |-> vendor,
                                                status |-> "previewed"]),
                                   TRUE)
                 /\ uploaded' = Append(uploaded, vendor)
                 /\ response' = Response("upload-file", uploadId, 200, "", "", vendor,
                                         <<>>, <<>>, FALSE)
         IN  IF ~hasFile
             THEN /\ response' = Response("upload-file", 0, 400, "No file uploaded", "",
                                          "", <<>>, <<>>, FALSE)
                  /\ UNCHANGED <<uploadStore, uploaded>>
             ELSE Created(Len(uploadStore) + 1, VendorOrDefault(v))
    /\ UNCHANGED <<transformStore, jobs, files, deleted>>
    /\ ApiFrame

\* what GET /preview/:uploadId answers
PreviewResponse(uploadId) ==
    LET Found(uploadRecord, vendor) ==
            IF GetOutputColumns(vendor).kind = "throw"
            THEN Response("preview", uploadId, 500, "Vendor not found", "", "",
                          <<>>, <<>>, FALSE)
            ELSE Response("preview", uploadId, 200, "", "", vendor,
                          GetOutputColumns(vendor).columns, <<>>, FALSE)
    IN  IF FindIndex(uploadStore, "uploadId", uploadId) = 0
        THEN Response("preview", uploadId, 404, "Upload not found", "", "",
                      <<>>, <<>>, FALSE)
        ELSE Found(uploadStore[FindIndex(uploadStore, "uploadId", uploadId)],
                   VendorOrDefault(
                       VendorIdOf(uploadStore[FindIndex(uploadStore, "uploadId",
                                                        uploadId)])))

\* GET /preview/:uploadId
Preview ==
    /\ pc = "serving"
    /\ \E uploadId \in 1..MaxUploads : response' = PreviewResponse(uploadId)
    /\ UNCHANGED <<uploadStore, transformStore, jobs, files, uploaded, deleted>>
    /\ ApiFrame

\* POST /transform: the record is stored with status 'processing' and the job
\* is queued with setImmediate
Transform ==
    /\ pc = "serving" /\ Len(jobs) < MaxTransforms
    /\ \E uploadId \in 0..MaxUploads :
         LET Started(transformId, uploadRecord, vendor, transformRecord) ==
                 /\ transformStore' =
                        SaveRecord(transformStore, "transformId", transformRecord, TRUE)
                 /\ jobs' = Append(jobs, [pc |-> "queued",
                                          inputPath |-> uploadRecord["originalPath"],
                                          vendorId |-> vendor,
                                          transformRecord |-> transformRecord])
                 /\ response' = Response("transform", transformId, 200, "", "processing",
                                         vendor, <<>>, <<>>, FALSE)
             Found(transformId, uploadRecord, vendor) ==
                 Started(transformId, uploadRecord, vendor,
                         NewDocument(TransformSchemaPaths,
                                     [transformId |-> transformId,
                                      uploadId |-> uploadId,
                                      vendorId |-> vendor,
                                      status |-> "processing",
                                      rowsProcessed |-> 0]))
         IN  IF uploadId = 0
             THEN /\ response' = Response("transform", 0, 400, "uploadId is required", "",
                                          "", <<>>, <<>>, FALSE)
                  /\ UNCHANGED <<transformStore, jobs>>
             ELSE IF FindIndex(uploadStore, "uploadId", uploadId) = 0
             THEN /\ response' = Response("transform", 0, 404, "Upload not found", "",
                                          "", <<>>, <<>>, FALSE)
                  /\ UNCHANGED <<transformStore, jobs>>
             ELSE Found(Len(jobs) + 1,
                        uploadStore[FindIndex(uploadStore, "uploadId", uploadId)],
                        VendorOrDefault(
                            VendorIdOf(uploadStore[FindIndex(uploadStore, "uploadId",
                                                             uploadId)])))
    /\ UNCHANGED <<uploadStore, files, uploaded, deleted>>
    /\ ApiFrame

\* the results of (row) => transformRow(row, depositMapping, { vendorId }) on
\* the rows of a file that have content
RowResults(file, vendor) ==
    [i \in 1..Len(SelectSeq(file.rows, HasContent)) |->
        TransformRow(SelectSeq(file.rows, HasContent)[i], <<>>, <<>>, vendor)]

AnyThrows(results) == \E i \in 1..Len(results) : results[i].kind = "throw"

\* the rows a CSV run counts: those whose transformedRow is not empty
Written(results) == SelectSeq(results, LAMBDA res : DOMAIN res.transformedRow # {})

JobFrame == UNCHANGED <<uploadStore, response, uploaded, deleted>> /\ ApiFrame

\* the setImmediate callback up to its await: streamProcessFile is called.
\* For a CSV file the output stream is created and the input is piped into
\* the parser; an input that cannot be read makes the read stream emit
\* 'error', which has no listener, so the promise is never settled. For an
\* Excel file the whole run happens inside the promise executor.
JobStart(t) ==
    /\ pc = "serving" /\ t \in 1..Len(jobs) /\ jobs[t].pc = "queued"
    /\ \E readable \in BOOLEAN :
         LET Excel(results) ==
                 IF ~readable \/ AnyThrows(results)
                 THEN /\ jobs' = [jobs EXCEPT ![t].pc = "rejected"]
                      /\ UNCHANGED files
                 ELSE /\ jobs' = [jobs EXCEPT ![t].pc = "resolved",
                                              ![t].transformRecord =
                                                  [@ EXCEPT !["rowsProcessed"] = Len(results)]]
                      /\ files' = files \cup {t}
         IN  IF jobs[t].inputPath.fileType = "csv"
             THEN /\ jobs' = [jobs EXCEPT ![t].pc = IF readable THEN "streaming" ELSE "hung"]
                  /\ files' = files \cup {t}
             ELSE Excel(RowResults(jobs[t].inputPath, jobs[t].vendorId))
    /\ UNCHANGED transformStore
    /\ JobFrame

\* the parser's events of a CSV run: 'end' after the last row resolves the
\* promise and 'error' rejects it; a transformRow that throws inside the
\* 'data' handler either reaches the parser's error path or escapes it
JobStream(t) ==
    /\ pc = "serving" /\ t \in 1..Len(jobs) /\ jobs[t].pc = "streaming"
    /\ LET Csv(results) ==
               IF AnyThrows(results)
               THEN \E outcome \in {"rejected", "hung"} :
                        jobs' = [jobs EXCEPT ![t].pc = outcome]
               ELSE \E parsed \in BOOLEAN :
                        jobs' = IF parsed
                                THEN [jobs EXCEPT ![t].pc = "resolved",
                                                  ![t].transformRecord =
                                                      [@ EXCEPT !["rowsProcessed"] =
                                                                    Len(Written(results))]]
                                ELSE [jobs EXCEPT ![t].pc = "rejected"]
       IN  Csv(RowResults(jobs[t].inputPath, jobs[t].vendorId))
    /\ UNCHANGED <<transformStore, files>>
    /\ JobFrame

\* after the await: status 'completed' is set and the record saved; when that
\* save rejects the catch block sets 'failed' and saves again
JobCompleted(t) ==
    /\ pc = "serving" /\ t \in 1..Len(jobs) /\ jobs[t].pc = "resolved"
    /\ LET Saved(transformRecord) ==
               /\ transformStore' =
                      SaveRecord(transformStore, "transformId", transformRecord, FALSE)
               /\ jobs' = [jobs EXCEPT ![t].pc = "done",
                                       ![t].transformRecord = transformRecord]
           Lost(transformRecord) ==
               /\ UNCHANGED transformStore
               /\ jobs' = [jobs EXCEPT ![t].pc = "done",
                                       ![t].transformRecord = transformRecord]
       IN  IF dbConnected /\ FindIndex(transformStore, "transformId", t) = 0
           THEN Lost([jobs[t].transformRecord EXCEPT !["status"] = "failed"])
           ELSE Saved([jobs[t].transformRecord EXCEPT !["status"] = "completed"])
    /\ UNCHANGED files
    /\ JobFrame

\* the catch block after a rejected streamProcessFile: status 'failed' is set
\* and the record saved
JobFailed(t) ==
    /\ pc = "serving" /\ t \in 1..Len(jobs) /\ jobs[t].pc = "rejected"
    /\ LET Saved(transformRecord) ==
               /\ transformStore' =
                      SaveRecord(transformStore, "transformId", transformRecord, FALSE)
               /\ jobs' = [jobs EXCEPT ![t].pc = "done",
                                       ![t].transformRecord = transformRecord]
       IN  Saved([jobs[t].transformRecord EXCEPT !["status"] = "failed"])
    /\ UNCHANGED files
    /\ JobFrame

\* what GET /transform-status/:transformId answers
StatusResponse(transformId) ==
    IF FindIndex(transformStore, "transformId", transformId) = 0
    THEN Response("transform-status", transformId, 404, "Transform not found", "", "",
                  <<>>, <<>>, FALSE)
    ELSE Response("transform-status", transformId, 200, "",
                  transformStore[FindIndex(transformStore, "transformId",
                                           transformId)]["status"],
                  "", <<>>, <<>>, FALSE)

\* GET /transform-status/:transformId
TransformStatus ==
    /\ pc = "serving"
    /\ \E transformId \in 1..MaxTransforms : response' = StatusResponse(transformId)
    /\ UNCHANGED <<uploadStore, transformStore, jobs, files, uploaded, deleted>>
    /\ ApiFrame

\* a download route that leaves out the test of the status
DownloadResponseUngated(transformId) ==
    LET Found(transformRecord) ==
            IF transformId \notin files
            THEN Response("download", transformId, 404, "Output file not found", "", "",
                          <<>>, <<>>, FALSE)
            ELSE Response("download", transformId, 200, "", "", "", <<>>, <<>>, TRUE)
    IN  IF FindIndex(transformStore, "transformId", transformId) = 0
        THEN Response("download", transformId, 404, "Transform not found", "", "",
                      <<>>, <<>>, FALSE)
        ELSE Found(transformStore[FindIndex(transformStore, "transformId", transformId)])

\* what GET /download/:transformId answers
DownloadResponse(transformId) ==
    LET Found(transformRecord) ==
            IF transformRecord["status"] # "completed"
            THEN Response("download", transformId, 400, "Transform not completed yet",
                          transformRecord["status"], "", <<>>, <<>>, FALSE)
            ELSE IF transformId \notin files
            THEN Response("download", transformId, 404, "Output file not found", "", "",
                          <<>>, <<>>, FALSE)
            ELSE Response("download", transformId, 200, "", "", "", <<>>, <<>>, TRUE)
    IN  IF FindIndex(transformStore, "transformId", transformId) = 0
        THEN Response("download", transformId, 404, "Transform not found", "", "",
                      <<>>, <<>>, FALSE)
        ELSE Found(transformStore[FindIndex(transformStore, "transformId", transformId)])

\* GET /download/:transformId
Download ==
    /\ pc = "serving"
    /\ \E transformId \in 1..MaxTransforms : response' = DownloadResponse(transformId)
    /\ UNCHANGED <<uploadStore, transformStore, jobs, files, uploaded, deleted>>
    /\ ApiFrame

\* what GET /history lists: the transformations of the collection, the latest
\* created first
HistoryResponse ==
    Response("history", 0, 200, "", "", "", <<>>,
             SelectSeq([i \in 1..MaxTransforms |-> MaxTransforms + 1 - i],
                       LAMBDA t : FindIndex(transformStore, "transformId", t) > 0),
             FALSE)

\* GET /history
History ==
    /\ pc = "serving"
    /\ response' = HistoryResponse
    /\ UNCHANGED <<uploadStore, transformStore, jobs, files, uploaded, deleted>>
    /\ ApiFrame

\* DELETE /transform/:transformId
DeleteTransform ==
    /\ pc = "serving"
    /\ \E transformId \in 1..MaxTransforms :
         IF FindIndex(transformStore, "transformId", transformId) = 0
         THEN /\ response' = Response("delete", transformId, 404, "Transform not found",
                                      "", "", <<>>, <<>>, FALSE)
              /\ UNCHANGED <<transformStore, files, deleted>>
         ELSE /\ files' = files \ {transformId}
              /\ transformStore' = DeleteOne(transformStore, "transformId", transformId)
              /\ deleted' = deleted \cup {transformId}
              /\ response' = Response("delete", transformId, 200, "", "", "",
                                      <<>>, <<>>, FALSE)
    /\ UNCHANGED <<uploadStore, jobs, uploaded>>
    /\ ApiFrame

NextApi ==
    \/ UploadFile
    \/ Preview
    \/ Transform
    \/ \E t \in 1..MaxTransforms : JobStart(t)
    \/ \E t \in 1..MaxTransforms : JobStream(t)
    \/ \E t \in 1..MaxTransforms : JobCompleted(t)
    \/ \E t \in 1..MaxTransforms : JobFailed(t)
    \/ TransformStatus
    \/ Download
    \/ History
    \/ DeleteTransform

SpecApi == InitApi /\ [][NextApi]_vars

\* the jobs run on the event loop: a queued callback is called, a settled
\* promise resumes its awaiting function, a stream delivers its events
SpecApiFair ==
    /\ SpecApi
    /\ \A t \in 1..MaxTransforms :
          /\ WF_vars(JobStart(t)) /\ WF_vars(JobStream(t))
          /\ WF_vars(JobCompleted(t)) /\ WF_vars(JobFailed(t))

-----------------------------------------------------------------------------
(* The vendor of an upload *)

\* the output columns of a vendor's transformer
ColumnsOfVendor(v) ==
    IF v = "PINE_STATE_SPIRITS" THEN PineGetOutputColumns ELSE AgneGetOutputColumns

\* C25: for every upload created with vendor id v, any later preview of that
\* upload reports v's output columns and any later transformation of that
\* upload applies v's transformer, whatever requests happen in between.
C25_VendorCarried ==
    /\ \A u \in 1..Len(uploaded) :
          /\ PreviewResponse(u).code = 200
          /\ PreviewResponse(u).vendorId = uploaded[u]
          /\ PreviewResponse(u).columns = ColumnsOfVendor(uploaded[u])
    /\ \A t \in 1..Len(jobs) :
          jobs[t].vendorId = uploaded[jobs[t].transformRecord["uploadId"]]

\* the same of the uploads created with the default vendor
C25_DefaultVendorCarried ==
    /\ \A u \in 1..Len(uploaded) :
          uploaded[u] = GetDefaultVendor =>
              /\ PreviewResponse(u).code = 200
              /\ PreviewResponse(u).vendorId = uploaded[u]
              /\ PreviewResponse(u).columns = ColumnsOfVendor(uploaded[u])
    /\ \A t \in 1..Len(jobs) :
          uploaded[jobs[t].transformRecord["uploadId"]] = GetDefaultVendor =>
              jobs[t].vendorId = GetDefaultVendor

-----------------------------------------------------------------------------
(* The download gate *)

\* the status of a transformation's record, "none" when the collection has none
StatusOf(t) ==
    IF FindIndex(transformStore, "transformId", t) = 0 THEN "none"
    ELSE transformStore[FindIndex(transformStore, "transformId", t)]["status"]

\* C26: GET /download/:transformId sends the output file only when the
\* transformation's status is 'completed'; while the status is 'processing'
\* or 'failed' it answers 400 'Transform not completed yet', and for an id
\* with no record it answers 404.
C26_DownloadGate ==
    \A t \in 1..MaxTransforms :
        /\ DownloadResponse(t).sent => StatusOf(t) = "completed"
        /\ StatusOf(t) \in {"processing", "failed"} =>
              /\ DownloadResponse(t).code = 400
              /\ DownloadResponse(t).error = "Transform not completed yet"
              /\ ~DownloadResponse(t).sent
        /\ StatusOf(t) = "none" =>
              DownloadResponse(t).code = 404 /\ ~DownloadResponse(t).sent
        /\ (response.route = "download" /\ response.id = t /\ response.sent) =>
              (StatusOf(t) = "completed" \/ t \in deleted)

\* a download was refused while the transformation was processing and its
\* output file already existed
C26_Witness ==
    \E t \in 1..MaxTransforms :
        /\ response.route = "download" /\ response.id = t
        /\ response.code = 400 /\ response.status = "processing"
        /\ StatusOf(t) = "processing" /\ t \in files

\* a download was answered with the file of a completed transformation
C26_Sent ==
    \E t \in 1..MaxTransforms :
        /\ response.route = "download" /\ response.id = t /\ response.sent
        /\ StatusOf(t) = "completed"

-----------------------------------------------------------------------------
(* Every transformation finishes *)

Finished(t) == StatusOf(t) \in {"completed", "failed"}

\* C29: each transform record created with status 'processing' eventually
\* reaches 'completed' or 'failed' and then never changes status again, also
\* when the row transform throws or the input cannot be read.
C29_EventuallyFinishes ==
    /\ \A t \in 1..MaxTransforms :
          (StatusOf(t) = "processing") ~> (Finished(t) \/ t \in deleted)
    /\ [][ \A t \in 1..MaxTransforms :
              Finished(t) => StatusOf(t)' \in {StatusOf(t), "none"} ]_vars

\* once 'completed' or 'failed', the status of a record does not change
C29_FinalStatusKept ==
    [][ \A t \in 1..MaxTransforms :
           Finished(t) => StatusOf(t)' \in {StatusOf(t), "none"} ]_vars

-----------------------------------------------------------------------------
(* Deleted transformations *)

\* C30: once DELETE /transform/:transformId has answered success, no later
\* transform-status or history request returns that transformation, also when
\* it was deleted while 'processing' and its job finishes afterwards.
C30_DeleteFinal ==
    \A t \in deleted :
        /\ StatusResponse(t).code = 404
        /\ \A i \in 1..Len(HistoryResponse.list) : HistoryResponse.list[i] # t

\* the same while MongoDB is connected
C30_DeleteFinalConnected ==
    dbConnected =>
        \A t \in deleted :
            /\ StatusResponse(t).code = 404
            /\ \A i \in 1..Len(HistoryResponse.list) : HistoryResponse.list[i] # t

====
